---- MODULE Spec2Model ----
(***************************************************************************)
(* Print planning and rendering of spirt (src/src/print/mod.rs):           *)
(*   Plan::for_root / Plan::for_versions  (discovery, use counts, merge)   *)
(*   Printer::new                         (use styles, Anon indices)       *)
(*   <Plan as Print>::print               (per-Node, per-version fragments)*)
(*   <Versions as Display>::fmt           (plain-text banners)             *)
(* Planning is recursive in the source (use_node / use_interned call the   *)
(* visitor, which calls them back); here the recursion is an explicit      *)
(* stack of frames, one step per visitor callback or per return.           *)
(***************************************************************************)
EXTENDS Integers, Sequences, FiniteSets, TLC

VARIABLES
    versions,       \* input: the (name, root) pairs given to the constructor
    mode,           \* input: "for_root" or "for_versions"
    pc,             \* position in the print operation
    current_module, \* Plan::current_module: 0 is None, i is versions[i].root
    per_version_name_and_node_defs,  \* Plan field, a Vec of (name, node_defs)
    use_counts,     \* Plan::use_counts, an insertion-ordered map: Seq of <<use, count>>
    combined_use_counts,  \* for_versions' local of the same name
    version_use_counts,   \* history: plan.use_counts of each version when its traversal ended
    stack,          \* the call stack of use_node / use_interned activations
    use_styles,     \* Printer::use_styles: Seq of <<use, style>>
    out,            \* the Versions value returned by pretty_print
    text,           \* the lines written by <Versions as Display>::fmt
    html,           \* the rows written by Versions::render_to_html
    args,           \* input: std::env::args() of the dump command
    stderr,         \* what the dump command has written to standard error
    exit_code       \* the exit status of the dump command, -1 while there is none

vars == <<versions, mode, pc, current_module, per_version_name_and_node_defs,
          use_counts, combined_use_counts, version_use_counts, stack,
          use_styles, out, text, html, args, stderr, exit_code>>

\* ------------------------------------------------------------------ bounds
MaxUses == 2
MaxVersions == 2
\* The call stack available to the recursion of use_node / use_interned.
MaxStack == 8
\* The arguments given to the dump command after the program name.
MaxArgs == 2

\* ------------------------------------------------------------ Node and Use
NodeRoot == <<"Root", "">>
NodeAllCxInterned == <<"AllCxInterned", "">>
NodeModuleDialect == <<"ModuleDialect", "">>
NodeModuleDebugInfo == <<"ModuleDebugInfo", "">>
NodeGlobalVar(gv) == <<"GlobalVar", gv>>
NodeFunc(func) == <<"Func", func>>
CxAttrSet(attrs) == <<"AttrSet", attrs>>
CxType(ty) == <<"Type", ty>>
CxConst(ct) == <<"Const", ct>>

\* The function-local Uses: a region's label and the three kinds of Value
\* that are not constants. Entity handles are unique in the Context.
ControlRegionLabel(region) == <<"ControlRegionLabel", region>>
ControlRegionInput(region, input_idx) ==
    <<"ControlRegionInput", region \o "." \o ToString(input_idx)>>
ControlNodeOutput(control_node, output_idx) ==
    <<"ControlNodeOutput", control_node \o "." \o ToString(output_idx)>>
DataInstOutput(inst) == <<"DataInstOutput", inst>>

IsNode(u) ==
    u[1] \in {"Root", "AllCxInterned", "ModuleDialect", "ModuleDebugInfo",
              "GlobalVar", "Func"}
IsCxInterned(u) == u[1] \in {"AttrSet", "Type", "Const"}

\* Node::category: Err(..) for Root and AllCxInterned, Ok(..) otherwise.
NodeCategoryIsErr(node) == node[1] \in {"Root", "AllCxInterned"}

UseCategory(u) ==
    CASE u[1] = "Root" -> "Node::Root"
      [] u[1] = "AllCxInterned" -> "Node::AllCxInterned"
      [] u[1] = "ModuleDialect" -> "module.dialect"
      [] u[1] = "ModuleDebugInfo" -> "module.debug_info"
      [] u[1] = "GlobalVar" -> "global_var"
      [] u[1] = "Func" -> "func"
      [] u[1] = "AttrSet" -> "attrs"
      [] u[1] = "Type" -> "type"
      [] u[1] = "Const" -> "const"
      [] u[1] = "ControlRegionLabel" -> "label"
      [] OTHER -> "v"

\* ------------------------------------------------- the interning Context
\* A fixed Context with one entity of each shape the printer tells apart.
\* The default (empty) AttrSet is interned like any other.
AttrSetDefault == "a0"

cx ==
    [a0   |-> [attrs |-> <<>>],
     a3   |-> [attrs |-> <<"SpvAnnotation", "SpvAnnotation", "SpvBitflagsOperand">>],
     tInt |-> [attrs |-> "a0", ctor |-> "OpTypeInt", ctor_args |-> <<>>],
     tS   |-> [attrs |-> "a3", ctor |-> "OpTypeStruct", ctor_args |-> <<CxType("tInt")>>],
     tP   |-> [attrs |-> "a0", ctor |-> "OpTypePointer", ctor_args |-> <<CxType("tInt")>>],
     c5   |-> [attrs |-> "a0", ty |-> "tInt", ctor |-> "OpConstant", imms |-> "5",
               ctor_args |-> <<>>],
     c7   |-> [attrs |-> "a0", ty |-> "tInt", ctor |-> "OpConstant", imms |-> "7",
               ctor_args |-> <<>>]]

\* ------------------------------------------------------------- the inputs
Funcs == {"f1", "f2"}
GlobalVars == {"g1"}

SeqsUpTo(S, n) == UNION {[1..k -> S] : k \in 0..n}

\* A DataInstDef: whether it has an output (output_type.is_some()) and the
\* values it reads.
DataInstDefOf(inst, output_type, inputs) ==
    [inst |-> inst, output_type |-> output_type, inputs |-> inputs]

\* ControlNodeKind::Block { insts }: no outputs of its own.
Block(control_node, insts) ==
    [control_node |-> control_node, kind |-> "Block", insts |-> insts,
     scrutinee |-> <<>>, outputs |-> 0,
     cases |-> 0, initial_inputs |-> <<>>, body |-> "", body_inputs |-> 0]

\* ControlNodeKind::Select of SelectionKind::BoolCond: a scrutinee and
\* `outputs` outputs; its two cases are regions with no label, no inputs
\* and no children.
Select(control_node, scrutinee, outputs) ==
    [control_node |-> control_node, kind |-> "Select", insts |-> <<>>,
     scrutinee |-> <<scrutinee>>, outputs |-> outputs,
     cases |-> 2, initial_inputs |-> <<>>, body |-> "", body_inputs |-> 0]

\* ControlNodeKind::Loop { initial_inputs, body, repeat_condition }: the body
\* is a region with `body_inputs` inputs and no children.
Loop(control_node, initial_inputs, body, body_inputs, repeat_condition) ==
    [control_node |-> control_node, kind |-> "Loop", insts |-> <<>>,
     scrutinee |-> <<repeat_condition>>, outputs |-> 0,
     cases |-> 0, initial_inputs |-> initial_inputs, body |-> body,
     body_inputs |-> body_inputs]

\* cfg::ControlInst: the exit of a region.
ControlInst(kind, inputs, targets) ==
    [kind |-> kind, inputs |-> inputs, targets |-> targets]

\* A region of an unstructured CFG with the ControlInst on its exit.
ControlRegionOf(region, inputs, children, control_inst) ==
    [region |-> region, inputs |-> inputs, children |-> children,
     control_inst |-> control_inst]

\* A FuncDecl: its attributes, its return type, in order the uses its
\* instructions make of module-level entities (callees of calls, constants
\* and types), and the regions of its body in rev_post_order.
FuncDeclWithBody(attrs, uses, body) ==
    [attrs |-> attrs, ret_type |-> "tInt", uses |-> uses, body |-> body]

FuncDeclOf(attrs, uses) == FuncDeclWithBody(attrs, uses, <<>>)

\* Bodies of f1. BodyA: r1 computes i1 from its input and branches to r2,
\* which selects on i1 and returns the select's output.
BodyA ==
    <<ControlRegionOf("r1", 1,
        <<Block("n1", <<DataInstDefOf("i1", TRUE, <<ControlRegionInput("r1", 0)>>),
                        DataInstDefOf("i2", FALSE,
                                      <<DataInstOutput("i1"), CxConst("c5")>>)>>)>>,
        ControlInst("Branch", <<>>, <<"r2">>)),
      ControlRegionOf("r2", 0,
        <<Select("n2", DataInstOutput("i1"), 1)>>,
        ControlInst("Return", <<ControlNodeOutput("n2", 0)>>, <<>>))>>

\* BodyB: a later edit of BodyA; i4 is new and comes first, r1 loops.
BodyB ==
    <<ControlRegionOf("r1", 1,
        <<Block("n1", <<DataInstDefOf("i4", TRUE, <<ControlRegionInput("r1", 0)>>),
                        DataInstDefOf("i1", TRUE, <<DataInstOutput("i4")>>)>>)>>,
        ControlInst("SelectBranch", <<DataInstOutput("i1")>>, <<"r2", "r1">>)),
      ControlRegionOf("r2", 0, <<>>,
        ControlInst("Return", <<DataInstOutput("i4")>>, <<>>))>>

\* BodyC: a single region whose only output is never read.
BodyC ==
    <<ControlRegionOf("r1", 0,
        <<Block("n1", <<DataInstDefOf("i1", TRUE, <<>>)>>)>>,
        ControlInst("Return", <<>>, <<>>))>>

\* BodyD: both cases of r1's branch go to r2.
BodyD ==
    <<ControlRegionOf("r1", 1, <<>>,
        ControlInst("SelectBranch", <<ControlRegionInput("r1", 0)>>, <<"r2", "r2">>)),
      ControlRegionOf("r2", 0, <<>>,
        ControlInst("Return", <<>>, <<>>))>>

\* BodyLoop: r1 holds a loop that starts from r1's input and repeats while
\* the body's input says so.
BodyLoop ==
    <<ControlRegionOf("r1", 1,
        <<Loop("n5", <<ControlRegionInput("r1", 0)>>, "r5", 1,
               ControlRegionInput("r5", 0))>>,
        ControlInst("Return", <<>>, <<>>))>>

\* A body that ends as soon as it is entered.
BodyUnreachable ==
    <<ControlRegionOf("r1", 0, <<>>, ControlInst("Unreachable", <<>>, <<>>))>>

\* Bodies whose one region holds a construct of a shape its kind does not
\* have: the types allow every one of them.
MalformedBodies ==
    {<<ControlRegionOf("r1", 0, children, control_inst)>> :
        children \in {<<>>}, control_inst \in
            {ControlInst("Return", <<CxConst("c5"), CxConst("c5")>>, <<>>),
             ControlInst("Return", <<>>, <<"r1">>),
             ControlInst("Unreachable", <<>>, <<"r1">>),
             ControlInst("Branch", <<>>, <<"r1", "r1">>),
             ControlInst("Branch", <<CxConst("c5")>>, <<"r1">>),
             ControlInst("SelectBranch", <<>>, <<"r1", "r1">>),
             ControlInst("SelectBranch", <<CxConst("c5")>>, <<"r1">>)}}
    \cup
    {<<ControlRegionOf("r1", 0, <<child>>, ControlInst("Return", <<>>, <<>>))>> :
        child \in
            {[Select("n2", CxConst("c5"), 0) EXCEPT !.cases = 1],
             Loop("n5", <<CxConst("c5"), CxConst("c5")>>, "r5", 1, CxConst("c5"))}}

\* The body of f2.
BodyF2 ==
    <<ControlRegionOf("r3", 1,
        <<Block("n3", <<DataInstDefOf("i3", TRUE, <<ControlRegionInput("r3", 0)>>)>>)>>,
        ControlInst("Branch", <<>>, <<"r4">>)),
      ControlRegionOf("r4", 0, <<>>,
        ControlInst("Return", <<DataInstOutput("i3")>>, <<>>))>>

GlobalVarDeclOf == [attrs |-> "a0", type_of_ptr_to |-> "tP"]

ModuleOf(exports, d1, d2) ==
    [kind |-> "Module",
     exports |-> exports,
     funcs |-> [f1 |-> d1, f2 |-> d2],
     global_vars |-> [g1 |-> GlobalVarDeclOf]]

\* Modules printed alone: self and mutual recursion, shared constants.
RootModules ==
    {ModuleOf(e, FuncDeclOf("a3", u1), FuncDeclOf("a0", u2)) :
        e \in {<<NodeFunc("f1")>>, <<NodeFunc("f1"), NodeFunc("f2")>>},
        u1 \in SeqsUpTo({NodeFunc("f1"), NodeFunc("f2"), CxConst("c5")}, MaxUses),
        u2 \in SeqsUpTo({NodeFunc("f1"), CxConst("c7"), CxType("tS")}, MaxUses)}

\* Modules compared as versions: f2 is the same in all of them, f1 changes.
VersionModules ==
    {ModuleOf(<<NodeFunc("f1"), NodeFunc("f2")>>,
              FuncDeclOf("a0", u1),
              FuncDeclOf("a0", <<CxType("tP"), CxType("tP")>>)) :
        u1 \in SeqsUpTo({CxType("tS"), NodeGlobalVar("g1")}, MaxUses)}

\* Modules whose functions have bodies: labels, inputs and outputs.
BodyModules ==
    {ModuleOf(<<NodeFunc("f1"), NodeFunc("f2")>>,
              FuncDeclWithBody("a0", <<>>, b1),
              FuncDeclWithBody("a0", <<>>, b2)) :
        b1 \in {BodyA, BodyB, BodyC}, b2 \in {BodyF2, <<>>}}

\* Modules whose f1 is called by f2 and may call itself.
CallModules ==
    {ModuleOf(<<NodeFunc("f1"), NodeFunc("f2")>>,
              FuncDeclWithBody("a0", u1, BodyD),
              FuncDeclWithBody("a0", <<NodeFunc("f1")>>, BodyF2)) :
        u1 \in {<<>>, <<NodeFunc("f1")>>}}

\* Modules whose f1 holds a loop, an unreachable exit or a malformed construct.
ShapeModules ==
    {ModuleOf(<<NodeFunc("f1")>>,
              FuncDeclWithBody("a0", <<>>, b),
              FuncDeclOf("a0", <<>>)) :
        b \in MalformedBodies \cup {BodyLoop, BodyUnreachable}}

\* ExpectedVsFound { expected, found }: a root that is not a Module.
ExpectedVsFound(expected, found) ==
    [kind |-> "ExpectedVsFound", expected |-> expected, found |-> found]

\* Mismatch reports printed alone: references to module-stored Nodes and to
\* interned entities, with no Module around them.
DiagnosticRoots ==
    {ExpectedVsFound(e, f) :
        e, f \in {NodeFunc("f1"), NodeGlobalVar("g1"), CxType("tS"), CxConst("c5")}}

VersionName(i) == "v" \o ToString(i)

\* ------------------------------------------------ insertion-ordered maps
Keys(m) == [i \in 1..Len(m) |-> m[i][1]]
KeySet(m) == {m[i][1] : i \in 1..Len(m)}
Has(m, k) == k \in KeySet(m)
IndexOf(m, k) == CHOOSE i \in 1..Len(m) : m[i][1] = k
Get(m, k) == m[IndexOf(m, k)][2]
Put(m, k, v) == [m EXCEPT ![IndexOf(m, k)] = <<k, v>>]
\* `*map.entry(k).or_default() += 1`
EntryOrDefaultInc(m, k) ==
    IF Has(m, k) THEN Put(m, k, Get(m, k) + 1) ELSE Append(m, <<k, 1>>)
\* `map.shift_remove(&k)`
ShiftRemove(m, k) == SelectSeq(m, LAMBDA e : e[1] # k)

\* ------------------------------------------------ the traversal contract
\* What each definition's inner_visit_with calls back, in order.
InnerVisitCxInterned(interned) ==
    LET def == cx[interned[2]] IN
    CASE interned[1] = "AttrSet" -> <<>>
      [] interned[1] = "Type" -> <<CxAttrSet(def.attrs)>> \o def.ctor_args
      [] interned[1] = "Const" ->
            <<CxAttrSet(def.attrs), CxType(def.ty)>> \o def.ctor_args

InnerVisitModule(module) ==
    <<NodeModuleDialect, NodeModuleDebugInfo>> \o module.exports

\* The values a body reads, in the order its regions are visited: a
\* constant operand reaches visit_const_use, any other visit_value_use.
ValuesOfInsts(insts) ==
    LET acc[i \in 0..Len(insts)] ==
            IF i = 0 THEN <<>> ELSE acc[i - 1] \o insts[i].inputs
    IN  acc[Len(insts)]

ValuesOfChildren(children) ==
    LET acc[i \in 0..Len(children)] ==
            IF i = 0 THEN <<>>
            ELSE acc[i - 1] \o ValuesOfInsts(children[i].insts)
                    \o children[i].initial_inputs
                    \o children[i].scrutinee
    IN  acc[Len(children)]

InnerVisitFuncDefBody(body) ==
    LET acc[i \in 0..Len(body)] ==
            IF i = 0 THEN <<>>
            ELSE acc[i - 1] \o ValuesOfChildren(body[i].children)
                    \o body[i].control_inst.inputs
    IN  acc[Len(body)]

InnerVisitFuncDecl(decl) ==
    <<CxAttrSet(decl.attrs), CxType(decl.ret_type)>> \o decl.uses
        \o InnerVisitFuncDefBody(decl.body)

InnerVisitGlobalVarDecl(decl) ==
    <<CxAttrSet(decl.attrs), CxType(decl.type_of_ptr_to)>>

\* <ExpectedVsFound as InnerVisit>::inner_visit_with
InnerVisitExpectedVsFound(root) == <<root.expected, root.found>>

\* The definition a (module, node) pointer refers to, as visited.
InnerVisitNode(node, v) ==
    CASE node[1] = "Root" ->
            IF versions[v].root.kind = "Module"
            THEN InnerVisitModule(versions[v].root)
            ELSE InnerVisitExpectedVsFound(versions[v].root)
      [] node[1] = "Func" -> InnerVisitFuncDecl(versions[v].root.funcs[node[2]])
      [] node[1] = "GlobalVar" ->
            InnerVisitGlobalVarDecl(versions[v].root.global_vars[node[2]])
      [] OTHER -> <<>>

\* ------------------------------------------------------------- planning
ActiveVersion == Len(per_version_name_and_node_defs)
node_defs == per_version_name_and_node_defs[ActiveVersion].node_defs

Top == stack[Len(stack)]
Callback == Head(Top.todo)
Returned == [stack EXCEPT ![Len(stack)].todo = Tail(@)]
Frame(u, todo) == [use |-> u, todo |-> todo, old_module |-> current_module]

Visiting(kinds) ==
    /\ pc = "visiting"
    /\ stack # <<>>
    /\ Len(stack) < MaxStack
    /\ Top.todo # <<>>
    /\ Callback[1] \in kinds

\* Mutant: no recursion guard, a registered Node is entered again.
AlreadyRegisteredReentered(node, ptr, rest) ==
    /\ stack' = Append(rest, Frame(node, InnerVisitNode(node, ptr[1])))
    /\ pc' = pc

\* The recursion guard of use_node: what an already registered Node does.
AlreadyRegistered(node, ptr, rest) ==
    IF node_defs[node] = ptr
    THEN /\ stack' = rest
         /\ pc' = pc
    ELSE /\ stack' = <<>>
         /\ pc' = "panicked"

\* The targets of every region's ControlInst, in rev_post_order.
TargetLabelsFirstOnly(body) ==
    LET acc[i \in 0..Len(body)] ==
            IF i = 0 THEN <<>>
            ELSE acc[i - 1] \o
                 [t \in 1..(IF body[i].control_inst.targets = <<>> THEN 0 ELSE 1) |->
                        ControlRegionLabel(body[i].control_inst.targets[t])]
    IN  acc[Len(body)]

TargetLabels(body) ==
    LET acc[i \in 0..Len(body)] ==
            IF i = 0 THEN <<>>
            ELSE acc[i - 1] \o [t \in 1..Len(body[i].control_inst.targets) |->
                                    ControlRegionLabel(body[i].control_inst.targets[t])]
    IN  acc[Len(body)]

\* `*use_counts.entry(u).or_default() += 1` for each u of a list, in order.
CountAll(counts, uses) ==
    LET acc[i \in 0..Len(uses)] ==
            IF i = 0 THEN counts ELSE EntryOrDefaultInc(acc[i - 1], uses[i])
    IN  acc[Len(uses)]

\* visit_func_decl before its inner_visit_with: one use of the label of
\* every branch target.
visit_func_decl(counts, decl) == CountAll(counts, TargetLabels(decl.body))

\* What dyn_visit_with does to use_counts before it visits the definition's
\* parts: only a FuncDecl's visit counts anything.
dyn_visit_with(counts, node, ptr) ==
    IF node[1] = "Func"
    THEN visit_func_decl(counts, versions[ptr[1]].root.funcs[node[2]])
    ELSE counts

\* Plan::use_node up to and including its call of dyn_visit_with.
use_node(node, ptr, rest) ==
    IF Has(use_counts, node)
    THEN /\ use_counts' = Put(use_counts, node, Get(use_counts, node) + 1)
         /\ stack' = rest
         /\ UNCHANGED <<pc, per_version_name_and_node_defs, current_module>>
    ELSE IF node \in DOMAIN node_defs
    THEN /\ AlreadyRegistered(node, ptr, rest)
         /\ UNCHANGED <<use_counts, per_version_name_and_node_defs, current_module>>
    ELSE /\ per_version_name_and_node_defs' =
                [per_version_name_and_node_defs EXCEPT
                    ![ActiveVersion].node_defs = @ @@ (node :> ptr)]
         /\ stack' = Append(rest, Frame(node, InnerVisitNode(node, ptr[1])))
         /\ use_counts' = dyn_visit_with(use_counts, node, ptr)
         /\ UNCHANGED <<pc, current_module>>

\* Mutant: the count entry is made before the definition is visited.
use_interned_counted_first(interned, rest) ==
    /\ IF Has(use_counts, interned)
       THEN /\ use_counts' = Put(use_counts, interned, Get(use_counts, interned) + 1)
            /\ stack' = rest
       ELSE /\ stack' = Append(rest, Frame(interned, InnerVisitCxInterned(interned)))
            /\ use_counts' = Append(use_counts, <<interned, 0>>)
    /\ UNCHANGED <<pc, per_version_name_and_node_defs, current_module>>

\* Plan::use_interned up to and including its visit of the definition.
use_interned(interned, rest) ==
    /\ IF Has(use_counts, interned)
       THEN /\ use_counts' = Put(use_counts, interned, Get(use_counts, interned) + 1)
            /\ stack' = rest
       ELSE /\ stack' = Append(rest, Frame(interned, InnerVisitCxInterned(interned)))
            /\ UNCHANGED use_counts
    /\ UNCHANGED <<pc, per_version_name_and_node_defs, current_module>>

Planning == <<versions, mode, args, stderr, exit_code, combined_use_counts, version_use_counts,
              use_styles, out, text, html>>

visit_attr_set_use ==
    /\ Visiting({"AttrSet"})
    /\ use_interned(Callback, Returned)
    /\ UNCHANGED Planning

visit_type_use ==
    /\ Visiting({"Type"})
    /\ use_interned(Callback, Returned)
    /\ UNCHANGED Planning

visit_const_use ==
    /\ Visiting({"Const"})
    /\ use_interned(Callback, Returned)
    /\ UNCHANGED Planning

\* Mutant: a reference visited with no module is counted all the same.
visit_without_module_counted(counts, u) == EntryOrDefaultInc(counts, u)

\* `if let Some(module) = self.current_module { .. }` has no else: nothing
\* is recorded for the reference.
visit_without_module(counts, u) == counts

visit_global_var_use ==
    /\ Visiting({"GlobalVar"})
    /\ IF current_module # 0
       THEN use_node(Callback, <<current_module, Callback>>, Returned)
       ELSE /\ stack' = Returned
            /\ use_counts' = visit_without_module(use_counts, Callback)
            /\ UNCHANGED <<pc, per_version_name_and_node_defs, current_module>>
    /\ UNCHANGED Planning

visit_func_use ==
    /\ Visiting({"Func"})
    /\ IF current_module # 0
       THEN use_node(Callback, <<current_module, Callback>>, Returned)
       ELSE /\ stack' = Returned
            /\ use_counts' = visit_without_module(use_counts, Callback)
            /\ UNCHANGED <<pc, per_version_name_and_node_defs, current_module>>
    /\ UNCHANGED Planning

visit_module_dialect ==
    /\ Visiting({"ModuleDialect"})
    /\ use_node(Callback, <<current_module, Callback>>, Returned)
    /\ UNCHANGED Planning

visit_module_debug_info ==
    /\ Visiting({"ModuleDebugInfo"})
    /\ use_node(Callback, <<current_module, Callback>>, Returned)
    /\ UNCHANGED Planning

\* visit_value_use for a value that is not a constant: the use is counted,
\* and the value has nothing further to visit.
visit_value_use ==
    /\ Visiting({"ControlRegionInput", "ControlNodeOutput", "DataInstOutput"})
    /\ use_counts' = EntryOrDefaultInc(use_counts, Callback)
    /\ stack' = Returned
    /\ UNCHANGED <<pc, per_version_name_and_node_defs, current_module>>
    /\ UNCHANGED Planning

\* The whole of use_node(Node::AllCxInterned, &AllCxInterned): its definition
\* visits nothing, so the call returns at once.
use_node_AllCxInterned(counts, defs) ==
    IF Has(counts, NodeAllCxInterned)
    THEN [counts |-> Put(counts, NodeAllCxInterned, Get(counts, NodeAllCxInterned) + 1),
          defs |-> defs]
    ELSE IF NodeAllCxInterned \in DOMAIN defs
    THEN [counts |-> counts, defs |-> defs]
    ELSE [counts |-> Append(counts, <<NodeAllCxInterned, 1>>),
          defs |-> defs @@ (NodeAllCxInterned :> <<0, NodeAllCxInterned>>)]

\* The rest of use_interned, once the definition's visit has returned.
use_interned_return ==
    /\ pc = "visiting"
    /\ stack # <<>>
    /\ Top.todo = <<>>
    /\ IsCxInterned(Top.use)
    /\ LET grouped == use_node_AllCxInterned(use_counts, node_defs) IN
        /\ per_version_name_and_node_defs' =
                [per_version_name_and_node_defs EXCEPT
                    ![ActiveVersion].node_defs = grouped.defs]
        /\ use_counts' = EntryOrDefaultInc(grouped.counts, Top.use)
    /\ stack' = SubSeq(stack, 1, Len(stack) - 1)
    /\ UNCHANGED <<pc, current_module>>
    /\ UNCHANGED Planning

\* The rest of use_node, once dyn_visit_with has returned. For Node::Root
\* this also ends visit_module (current_module restored) and the traversal.
use_node_return ==
    /\ pc = "visiting"
    /\ stack # <<>>
    /\ Top.todo = <<>>
    /\ IsNode(Top.use)
    /\ use_counts' = EntryOrDefaultInc(use_counts, Top.use)
    /\ stack' = SubSeq(stack, 1, Len(stack) - 1)
    /\ IF Top.use = NodeRoot
       THEN /\ current_module' = Top.old_module
            /\ pc' = IF mode = "for_versions" THEN "merge" ELSE "planned"
            /\ version_use_counts' = Append(version_use_counts, use_counts')
       ELSE UNCHANGED <<current_module, pc, version_use_counts>>
    /\ UNCHANGED <<versions, mode, args, stderr, exit_code, per_version_name_and_node_defs,
                   combined_use_counts, use_styles, out, text, html>>

\* use_node(Node::Root, root) on a fresh version: registers the root and
\* enters visit_module, which makes the root the current module.
EnterRoot(v) ==
    /\ stack' = <<[use |-> NodeRoot,
                   todo |-> InnerVisitNode(NodeRoot, v),
                   old_module |-> current_module]>>
    /\ current_module' = IF versions[v].root.kind = "Module" THEN v ELSE current_module

\* Plan::for_root up to its call of use_node(Node::Root, root).
Plan_for_root ==
    /\ per_version_name_and_node_defs' =
            <<[name |-> "", node_defs |-> (NodeRoot :> <<1, NodeRoot>>)]>>
    /\ use_counts' = <<>>
    /\ EnterRoot(1)
    /\ pc' = "visiting"

for_root ==
    /\ pc = "start"
    /\ mode = "for_root"
    /\ Plan_for_root
    /\ UNCHANGED Planning

\* One iteration of for_versions' loop, up to the call of use_node.
for_versions ==
    /\ pc \in {"start", "next"}
    /\ mode = "for_versions"
    /\ LET v == ActiveVersion + 1 IN
        /\ v <= Len(versions)
        /\ combined_use_counts' = use_counts
        /\ use_counts' = <<>>
        /\ per_version_name_and_node_defs' =
                Append(per_version_name_and_node_defs,
                       [name |-> versions[v].name,
                        node_defs |-> (NodeRoot :> <<v, NodeRoot>>)])
        /\ EnterRoot(v)
    /\ pc' = "visiting"
    /\ UNCHANGED <<versions, mode, args, stderr, exit_code, version_use_counts, use_styles, out, text, html>>

\* Mutant: the counts of the versions are added up.
MergeSum(count, new_count) == count + new_count

\* `new_count.max(*count)`
MergeMax(count, new_count) == IF new_count > count THEN new_count ELSE count

RECURSIVE MergeInto(_, _)
\* `for (use_kind, new_count) in drain(..) { entry(use_kind).or_default() = max }`
MergeInto(combined, drained) ==
    IF drained = <<>> THEN combined
    ELSE LET use_kind == Head(drained)[1]
             new_count == Head(drained)[2]
             count == IF Has(combined, use_kind) THEN Get(combined, use_kind) ELSE 0
             merged == IF Has(combined, use_kind)
                       THEN Put(combined, use_kind, MergeMax(count, new_count))
                       ELSE Append(combined, <<use_kind, MergeMax(count, new_count)>>)
         IN MergeInto(merged, Tail(drained))

\* "Merge use counts (from second version onward)", the end of an iteration.
merge_use_counts ==
    /\ pc = "merge"
    /\ use_counts' = IF combined_use_counts # <<>>
                     THEN MergeInto(combined_use_counts, use_counts)
                     ELSE use_counts
    /\ combined_use_counts' = <<>>
    /\ pc' = IF ActiveVersion < Len(versions) THEN "next" ELSE "rotate"
    /\ UNCHANGED <<versions, mode, args, stderr, exit_code, current_module, per_version_name_and_node_defs,
                   version_use_counts, stack, use_styles, out, text, html>>

\* The table left as the merge built it.
RotateRootSkipped(m) == m

\* `map.shift_remove(&k).map(|v| map.insert(k, v))`
RotateRoot(m) ==
    IF Has(m, NodeRoot)
    THEN Append(ShiftRemove(m, NodeRoot), <<NodeRoot, Get(m, NodeRoot)>>)
    ELSE m

rotate_root ==
    /\ pc = "rotate"
    /\ use_counts' = RotateRoot(use_counts)
    /\ pc' = "planned"
    /\ UNCHANGED <<versions, mode, args, stderr, exit_code, current_module, per_version_name_and_node_defs,
                   combined_use_counts, version_use_counts, stack, use_styles,
                   out, text, html>>

\* ------------------------------------------------------------ Printer::new
Inline == [kind |-> "Inline", parent_func |-> "", idx |-> 0]
Anon(parent_func, idx) == [kind |-> "Anon", parent_func |-> parent_func, idx |-> idx]

AnonCountersDefault ==
    [attr_sets |-> 0, types |-> 0, consts |-> 0, global_vars |-> 0, funcs |-> 0]

\* The "compact" test of each interned kind (the `||` operand of `inline`).
AttrSetIsCompact(def) ==
    \/ Len(def.attrs) <= 1
    \/ \E i \in 1..Len(def.attrs) : def.attrs[i] = "SpvDebugLine"

TypeIsCompact(def) ==
    LET has_compact_print ==
            def.ctor \in {"OpTypeBool", "OpTypeInt", "OpTypeFloat", "OpTypeVector",
                          "SpvStringLiteralForExtInst"}
    IN  def.attrs = AttrSetDefault /\ (has_compact_print \/ def.ctor_args = <<>>)

\* Mutant: no constant counts as compact.
ConstIsNeverCompact(def) == FALSE

ConstIsCompact(def) ==
    LET has_compact_print ==
            def.ctor \in {"OpConstantFalse", "OpConstantTrue", "OpConstant"}
    IN  def.attrs = AttrSetDefault /\ (has_compact_print \/ def.ctor_args = <<>>)

CxInternedIsCompact(interned) ==
    CASE interned[1] = "AttrSet" -> AttrSetIsCompact(cx[interned[2]])
      [] interned[1] = "Type" -> TypeIsCompact(cx[interned[2]])
      [] interned[1] = "Const" -> ConstIsCompact(cx[interned[2]])

\* Mutant: a Node used once is inlined like an interned entity.
UseIsInlineAlsoNodes(use_kind, use_count) ==
    use_count = 1 \/ (IsCxInterned(use_kind) /\ CxInternedIsCompact(use_kind))

\* `let inline = match use_kind { .. }`
UseIsInline(use_kind, use_count) ==
    IF IsCxInterned(use_kind)
    THEN use_count = 1 \/ CxInternedIsCompact(use_kind)
    ELSE FALSE

\* Mutant: every category draws from the counter of the types.
CounterOfShared(use_kind) == "types"

CounterOf(use_kind) ==
    CASE use_kind[1] = "AttrSet" -> "attr_sets"
      [] use_kind[1] = "Type" -> "types"
      [] use_kind[1] = "Const" -> "consts"
      [] use_kind[1] = "GlobalVar" -> "global_vars"
      [] use_kind[1] = "Func" -> "funcs"

IsFuncLocal(use_kind) ==
    use_kind[1] \in {"ControlRegionLabel", "ControlRegionInput",
                     "ControlNodeOutput", "DataInstOutput"}

\* The first pass of Printer::new: one style per entry of plan.use_counts,
\* in order, the Anon counters threaded through.
RECURSIVE FirstPass(_, _, _)
FirstPass(counts, anon_counters, styles) ==
    IF counts = <<>> THEN styles
    ELSE LET use_kind == Head(counts)[1]
             use_count == Head(counts)[2]
         IN
         IF IsFuncLocal(use_kind)
         THEN FirstPass(Tail(counts), anon_counters,
                        Append(styles, <<use_kind, Inline>>))
         ELSE IF use_kind[1] \in {"Root", "AllCxInterned", "ModuleDialect",
                                  "ModuleDebugInfo"}
         THEN FirstPass(Tail(counts), anon_counters,
                        Append(styles, <<use_kind, Anon("", 0)>>))
         ELSE IF UseIsInline(use_kind, use_count)
         THEN FirstPass(Tail(counts), anon_counters,
                        Append(styles, <<use_kind, Inline>>))
         ELSE LET counter == CounterOf(use_kind)
                  idx == anon_counters[counter]
              IN FirstPass(Tail(counts),
                           [anon_counters EXCEPT ![counter] = idx + 1],
                           Append(styles, <<use_kind, Anon("", idx)>>))

\* What visit_region defines, in its order: the region's label, its inputs,
\* then per child the outputs of a Block's instructions and the child's own
\* outputs.
DefinedByInsts(insts) ==
    LET acc[i \in 0..Len(insts)] ==
            IF i = 0 THEN <<>>
            ELSE acc[i - 1] \o (IF insts[i].output_type
                                THEN <<DataInstOutput(insts[i].inst)>> ELSE <<>>)
    IN  acc[Len(insts)]

DefinedByChildren(children) ==
    LET acc[i \in 0..Len(children)] ==
            IF i = 0 THEN <<>>
            ELSE acc[i - 1]
                    \o (IF children[i].kind = "Block"
                        THEN DefinedByInsts(children[i].insts) ELSE <<>>)
                    \o [k \in 1..children[i].outputs |->
                            ControlNodeOutput(children[i].control_node, k - 1)]
    IN  acc[Len(children)]

\* visit_region of the bodies of a region's Loop children, visited after
\* the region itself: the body's label and inputs.
DefinedByLoopBodies(children) ==
    LET acc[i \in 0..Len(children)] ==
            IF i = 0 THEN <<>>
            ELSE IF children[i].kind # "Loop" THEN acc[i - 1]
            ELSE acc[i - 1] \o <<ControlRegionLabel(children[i].body)>>
                    \o [k \in 1..children[i].body_inputs |->
                            ControlRegionInput(children[i].body, k - 1)]
    IN  acc[Len(children)]

visit_region(region) ==
    <<ControlRegionLabel(region.region)>>
        \o [k \in 1..region.inputs |-> ControlRegionInput(region.region, k - 1)]
        \o DefinedByChildren(region.children)
        \o DefinedByLoopBodies(region.children)

\* func_def_body.inner_visit_with(&mut VisitAllRegions(visit_region))
VisitAllRegions(body) ==
    LET acc[i \in 0..Len(body)] ==
            IF i = 0 THEN <<>> ELSE acc[i - 1] \o visit_region(body[i])
    IN  acc[Len(body)]

\* `func_def_bodies_across_versions`, each body as the definitions it holds.
func_def_bodies_across_versions(defs, func) ==
    LET acc[v \in 0..Len(defs)] ==
            IF v = 0 THEN <<>>
            ELSE IF NodeFunc(func) \in DOMAIN defs[v].node_defs
            THEN acc[v - 1] \o VisitAllRegions(
                    versions[defs[v].node_defs[NodeFunc(func)][1]].root.funcs[func].body)
            ELSE acc[v - 1]
    IN  acc[Len(defs)]

\* Mutant: labels and values of a function draw from one counter.
define_label_or_value_one_counter(st, func, use_kind) ==
    IF Has(st.use_styles, use_kind) /\ Get(st.use_styles, use_kind).kind = "Inline"
    THEN [use_styles |-> Put(st.use_styles, use_kind, Anon(func, st.value_counter)),
          control_region_label_counter |-> st.control_region_label_counter,
          value_counter |-> st.value_counter + 1]
    ELSE st

\* The closure define_label_or_value: a new index only for a use that is in
\* the table and has none yet.
define_label_or_value(st, func, use_kind) ==
    IF Has(st.use_styles, use_kind) /\ Get(st.use_styles, use_kind).kind = "Inline"
    THEN IF use_kind[1] = "ControlRegionLabel"
         THEN [use_styles |-> Put(st.use_styles, use_kind,
                                  Anon(func, st.control_region_label_counter)),
               control_region_label_counter |-> st.control_region_label_counter + 1,
               value_counter |-> st.value_counter]
         ELSE [use_styles |-> Put(st.use_styles, use_kind,
                                  Anon(func, st.value_counter)),
               control_region_label_counter |-> st.control_region_label_counter,
               value_counter |-> st.value_counter + 1]
    ELSE st

\* define_label_or_value called on each definition of a list, in order.
RECURSIVE DefineAll(_, _, _)
DefineAll(st, func, defined) ==
    IF defined = <<>> THEN st
    ELSE LET next == define_label_or_value(st, func, Head(defined)) IN
         IF next.use_styles = st.use_styles
         THEN DefineAll(st, func, Tail(defined))
         ELSE DefineAll(next, func, Tail(defined))

\* One iteration of `for func in all_funcs`: both counters start at 0 and run
\* through the bodies of all versions.
SecondPassFunc(styles, defs, func) ==
    DefineAll([use_styles |-> styles, control_region_label_counter |-> 0,
               value_counter |-> 0],
              func, func_def_bodies_across_versions(defs, func)).use_styles

\* The second pass of Printer::new, over the functions of plan.use_counts.
SecondPass(styles, plan_use_counts, defs) ==
    LET all_funcs == SelectSeq(Keys(plan_use_counts), LAMBDA u : u[1] = "Func")
        acc[i \in 0..Len(all_funcs)] ==
            IF i = 0 THEN styles
            ELSE SecondPassFunc(acc[i - 1], defs, all_funcs[i][2])
    IN  acc[Len(all_funcs)]

Printer_new(plan_use_counts, defs) ==
    SecondPass(FirstPass(plan_use_counts, AnonCountersDefault, <<>>),
               plan_use_counts, defs)

\* ---------------------------------------------------------------- fragments
\* A pretty::Fragment is a sequence of nodes: styled text (with an optional
\* anchor, which may be the anchor's definition) or a forced line break.
Text(s) == [text |-> <<s>>, anchor |-> <<>>, anchor_is_def |-> FALSE]
ForceLineSeparation == Text("ForceLineSeparation")
Anchored(styled, anchor, is_def) ==
    [text |-> styled, anchor |-> anchor, anchor_is_def |-> is_def]
AttrsAndDef(attrs, def_without_name) ==
    [attrs |-> attrs, def_without_name |-> def_without_name]

RECURSIVE Flatten(_)
Flatten(fragments) ==
    IF fragments = <<>> THEN <<>> ELSE Head(fragments) \o Flatten(Tail(fragments))

RECURSIVE Intersperse(_, _)
Intersperse(fragments, sep) ==
    IF Len(fragments) <= 1 THEN fragments
    ELSE <<Head(fragments), sep>> \o Intersperse(Tail(fragments), sep)

\* AttrsAndDef::insert_name_before_def
insert_name_before_def(attrs_and_def, name) ==
    LET hoist == /\ name # <<>>
                 /\ attrs_and_def.attrs # <<>>
                 /\ name[1].anchor_is_def
        maybe_hoisted_anchor ==
            IF hoist THEN <<Anchored(<<"">>, name[1].anchor, TRUE)>> ELSE <<>>
        name_after ==
            IF hoist THEN [name EXCEPT ![1].anchor_is_def = FALSE] ELSE name
    IN  maybe_hoisted_anchor \o attrs_and_def.attrs \o name_after
            \o attrs_and_def.def_without_name

\* <AttrSetDef as Print>::print
AttrSetDef_print(def) ==
    LET non_comment == SelectSeq(def.attrs, LAMBDA a : a # "SpvDebugLine")
        comments == SelectSeq(def.attrs, LAMBDA a : a = "SpvDebugLine")
        braces == IF non_comment = <<>> THEN <<>>
                  ELSE <<Text("#{")>> \o [i \in 1..Len(non_comment) |-> Text(non_comment[i])]
                        \o <<Text("}"), ForceLineSeparation>>
    IN  braces \o Flatten([i \in 1..Len(comments) |->
                                <<Text("// at"), ForceLineSeparation>>])

RECURSIVE print_as_ref_or_def(_, _, _)
RECURSIVE CxInterned_print(_, _)
RECURSIVE PrintAll(_, _)

\* Mutant: a use printed as the definition of its anchor.
Use_print_as_def(printer, u) == print_as_ref_or_def(printer, u, TRUE)

\* <Use as Print>::print
Use_print(printer, u) == print_as_ref_or_def(printer, u, FALSE)

\* `.print(printer)` of each use of a list, concatenated.
PrintAll(printer, uses) ==
    IF uses = <<>> THEN <<>>
    ELSE Use_print(printer, Head(uses)) \o PrintAll(printer, Tail(uses))

\* <TypeDef as Print>::print
TypeDef_print(printer, def) ==
    LET compact == def.ctor \in {"OpTypeBool", "OpTypeInt", "OpTypeFloat"}
        def_without_name ==
            IF compact THEN <<Text(def.ctor)>>
            ELSE IF def.ctor = "OpTypeVector"
            THEN PrintAll(printer, def.ctor_args) \o <<Text("x")>>
            ELSE <<Text("spv."), Text(def.ctor)>> \o PrintAll(printer, def.ctor_args)
    IN  AttrsAndDef(Use_print(printer, CxAttrSet(def.attrs)),
                    def_without_name)

\* <ConstDef as Print>::print
ConstDef_print(printer, def) ==
    LET compact == \/ def.ctor \in {"OpConstantFalse", "OpConstantTrue"}
                   \/ /\ def.ctor = "OpConstant"
                      /\ cx[def.ty].ctor \in {"OpTypeInt", "OpTypeFloat"}
        def_without_name ==
            IF compact THEN <<Text(def.imms), Text(cx[def.ty].ctor)>>
            ELSE <<Text("spv."), Text(def.ctor)>> \o PrintAll(printer, def.ctor_args)
                    \o <<Text(":")>>
                    \o Use_print(printer, CxType(def.ty))
    IN  AttrsAndDef(Use_print(printer, CxAttrSet(def.attrs)),
                    def_without_name)

\* <CxInterned as Print>::print
CxInterned_print(printer, interned) ==
    CASE interned[1] = "AttrSet" -> AttrsAndDef(<<>>, AttrSetDef_print(cx[interned[2]]))
      [] interned[1] = "Type" -> TypeDef_print(printer, cx[interned[2]])
      [] interned[1] = "Const" -> ConstDef_print(printer, cx[interned[2]])

StyleOf(printer, u) == IF Has(printer, u) THEN Get(printer, u) ELSE Inline

\* Mutant: the name is the category alone.
AnonNameBare(u, idx) == <<UseCategory(u)>>

\* `{category}{idx}`, or the bare category for the two module records.
AnonName(u, idx) ==
    IF u[1] \in {"ModuleDialect", "ModuleDebugInfo"}
    THEN <<UseCategory(u)>>
    ELSE <<UseCategory(u), ToString(idx)>>

\* Mutant: the anchor is the name, whatever the scope.
AnonAnchorUnscoped(printer, style, name) == name

\* `let anchor = ..`: labels and values get the prefix `func{idx}.`.
AnonAnchor(printer, style, name) ==
    IF style.parent_func # ""
    THEN <<"func",
           ToString(StyleOf(printer, NodeFunc(style.parent_func)).idx),
           ".">> \o name
    ELSE name

\* Use::print_as_ref_or_def
print_as_ref_or_def(printer, u, is_def) ==
    LET style == StyleOf(printer, u) IN
    IF style.kind = "Anon"
    THEN LET name == AnonName(u, style.idx)
             anchor == AnonAnchor(printer, style, name)
         IN  IF u[1] = "AttrSet"
             THEN <<Anchored(<<"#">> \o name, anchor, is_def), ForceLineSeparation>>
             ELSE <<Anchored(name, anchor, is_def)>>
    ELSE IF IsCxInterned(u)
    THEN insert_name_before_def(CxInterned_print(printer, u), <<>>)
    ELSE IF IsNode(u)
    THEN <<Text("/* undefined " \o UseCategory(u) \o " */_")>>
    ELSE <<Text("_")>>

print_as_def(printer, u) == print_as_ref_or_def(printer, u, TRUE)

\* <AllCxInterned as Print>::print
AllCxInterned_print(printer) ==
    LET anon == SelectSeq(printer,
                    LAMBDA e : IsCxInterned(e[1]) /\ e[2].kind = "Anon")
        fragments ==
            [i \in 1..Len(anon) |->
                LET interned == anon[i][1]
                    name == <<UseCategory(interned), ToString(anon[i][2].idx)>>
                IN  insert_name_before_def(
                        CxInterned_print(printer, interned),
                        <<Anchored(name, name, TRUE), Text(" = ")>>)]
    IN  AttrsAndDef(<<>>, Flatten(Intersperse(fragments, <<Text("\n\n")>>)))

\* <Module as Print>::print
Module_print(printer, module) ==
    IF module.exports = <<>> THEN AttrsAndDef(<<>>, <<>>)
    ELSE AttrsAndDef(<<>>,
            <<Text("export"), Text("{")>>
                \o Flatten([i \in 1..Len(module.exports) |->
                        <<ForceLineSeparation, Text("key: ")>>
                            \o Use_print(printer, module.exports[i])])
                \o <<Text("}")>>)

\* <ModuleDialect as Print>::print and <ModuleDebugInfo as Print>::print
ModuleDialect_print == AttrsAndDef(<<>>, <<Text(" = "), Text("SPIR-V dialect")>>)
ModuleDebugInfo_print == AttrsAndDef(<<>>, <<Text(" = "), Text("SPIR-V debug info")>>)

\* <GlobalVarDecl as Print>::print: the pointee of an OpTypePointer is shown.
GlobalVarDecl_print(printer, decl) ==
    LET type_of_ptr_to_def == cx[decl.type_of_ptr_to]
        type_ascription_suffix ==
            IF type_of_ptr_to_def.ctor = "OpTypePointer"
            THEN <<Text(":")>> \o PrintAll(printer, type_of_ptr_to_def.ctor_args)
            ELSE <<Text(": "), Text("pointee_type_of"), Text("(")>>
                    \o Use_print(printer, CxType(decl.type_of_ptr_to))
                    \o <<Text(")")>>
    IN  AttrsAndDef(Use_print(printer, CxAttrSet(decl.attrs)),
                    <<Text(" in "), Text("StorageClass")>> \o type_ascription_suffix)

\* `print_as_def` of each use of a list, concatenated.
PrintAllAsDef(printer, uses) ==
    Flatten([i \in 1..Len(uses) |-> print_as_def(printer, uses[i])])

\* A Block's instructions: each on its own line, `{output} = ` before an
\* instruction that has an output, then its operands.
Insts_print(printer, insts) ==
    Flatten([i \in 1..Len(insts) |->
        <<ForceLineSeparation>>
            \o (IF insts[i].output_type
                THEN print_as_def(printer, DataInstOutput(insts[i].inst))
                        \o <<Text(" = ")>>
                ELSE <<>>)
            \o <<Text("inst"), Text("(")>>
            \o PrintAll(printer, insts[i].inputs)
            \o <<Text(")")>>])

\* <FuncAt<ControlNode> as Print>::print
ControlNode_print(printer, child) ==
    LET outputs == [k \in 1..child.outputs |->
                        ControlNodeOutput(child.control_node, k - 1)]
        outputs_header ==
            IF outputs # <<>>
            THEN PrintAllAsDef(printer, outputs) \o <<Text(" = ")>>
            ELSE <<>>
        inputs == [k \in 1..child.body_inputs |->
                        ControlRegionInput(child.body, k - 1)]
        inputs_header ==
            IF inputs = <<>> THEN <<>>
            ELSE <<Text("(")>>
                    \o Flatten([k \in 1..Len(inputs) |->
                            print_as_def(printer, inputs[k]) \o <<Text(" <- ")>>
                                \o Use_print(printer, child.initial_inputs[k])])
                    \o <<Text(")")>>
        body_suffix ==
            IF inputs = <<>> THEN <<>>
            ELSE <<Text(" -> ")>> \o PrintAll(printer, inputs)
        control_node_body ==
            CASE child.kind = "Block" -> Insts_print(printer, child.insts)
              [] child.kind = "Select" ->
                    <<Text("if ")>> \o PrintAll(printer, child.scrutinee)
                        \o <<Text(" {"), Text("}")>>
              [] child.kind = "Loop" ->
                    <<Text("loop")>> \o inputs_header \o <<Text(" {")>>
                        \o body_suffix \o <<Text("} "), Text("while ")>>
                        \o PrintAll(printer, child.scrutinee)
    IN  outputs_header \o control_node_body

\* <FuncAt<ControlRegion> as Print>::print: the children, one per line.
ControlRegion_print(printer, region) ==
    Flatten(Intersperse([i \in 1..Len(region.children) |->
                            ControlNode_print(printer, region.children[i])],
                        <<ForceLineSeparation>>))

\* <cfg::ControlInst as Print>::print
ControlInst_print(printer, control_inst) ==
    LET targets == [t \in 1..Len(control_inst.targets) |->
                        <<Text("branch ")>>
                            \o Use_print(printer,
                                    ControlRegionLabel(control_inst.targets[t]))]
    IN  CASE control_inst.kind = "Unreachable" -> <<Text("unreachable")>>
          [] control_inst.kind = "Return" ->
                <<Text("return")>> \o PrintAll(printer, control_inst.inputs)
          [] control_inst.kind = "Branch" -> targets[1]
          [] OTHER ->
                <<Text("if ")>> \o PrintAll(printer, control_inst.inputs)
                    \o <<Text(" {")>> \o Flatten(targets) \o <<Text("}")>>

\* Every region under a label header, targeted or not.
CfgRegion_print_header_always(printer, region) ==
    LET label == ControlRegionLabel(region.region)
        inputs == [k \in 1..region.inputs |-> ControlRegionInput(region.region, k - 1)]
        label_inputs ==
            IF inputs # <<>>
            THEN <<Text("(")>> \o PrintAllAsDef(printer, inputs) \o <<Text(")")>>
            ELSE <<>>
        label_header ==
            IF TRUE
            THEN <<ForceLineSeparation>> \o print_as_def(printer, label)
                    \o label_inputs \o <<Text(":"), ForceLineSeparation>>
            ELSE <<>>
    IN  label_header \o ControlRegion_print(printer, region)
            \o ControlInst_print(printer, region.control_inst)

\* One region of an unstructured CFG: its label header when the label is in
\* use_styles, its children, the ControlInst on its exit.
CfgRegion_print(printer, region) ==
    LET label == ControlRegionLabel(region.region)
        inputs == [k \in 1..region.inputs |-> ControlRegionInput(region.region, k - 1)]
        label_inputs ==
            IF inputs # <<>>
            THEN <<Text("(")>> \o PrintAllAsDef(printer, inputs) \o <<Text(")")>>
            ELSE <<>>
        label_header ==
            IF Has(printer, label)
            THEN <<ForceLineSeparation>> \o print_as_def(printer, label)
                    \o label_inputs \o <<Text(":"), ForceLineSeparation>>
            ELSE <<>>
    IN  label_header \o ControlRegion_print(printer, region)
            \o ControlInst_print(printer, region.control_inst)

\* <FuncDecl as Print>::print: the signature (parameters named after the
\* inputs of the body's first region), the uses of module-level entities,
\* then the regions in rev_post_order.
FuncDecl_print(printer, decl) ==
    LET params ==
            IF decl.body = <<>> THEN <<>>
            ELSE [k \in 1..decl.body[1].inputs |->
                        ControlRegionInput(decl.body[1].region, k - 1)]
    IN  AttrsAndDef(Use_print(printer, CxAttrSet(decl.attrs)),
                <<Text("(")>> \o PrintAll(printer, params)
                    \o <<Text(")"), Text(" -> ")>>
                    \o Use_print(printer, CxType(decl.ret_type))
                    \o <<Text(" {")>>
                    \o PrintAll(printer, decl.uses)
                    \o Flatten(Intersperse(
                            [i \in 1..Len(decl.body) |->
                                CfgRegion_print(printer, decl.body[i])],
                            <<Text("\n\n")>>))
                    \o <<Text("}")>>)

\* <ExpectedVsFound as Print>::print
ExpectedVsFound_print(printer, root) ==
    AttrsAndDef(<<>>,
        <<Text("expected: ")>> \o Use_print(printer, root.expected)
            \o <<ForceLineSeparation, Text("found: ")>>
            \o Use_print(printer, root.found))

\* `def.print(printer)` through a registered definition pointer.
NodeDef_print(printer, ptr) ==
    LET node == ptr[2]
        module == versions[ptr[1]].root
    IN  CASE node[1] = "Root" ->
                IF module.kind = "Module"
                THEN Module_print(printer, module)
                ELSE ExpectedVsFound_print(printer, module)
          [] node[1] = "AllCxInterned" -> AllCxInterned_print(printer)
          [] node[1] = "ModuleDialect" -> ModuleDialect_print
          [] node[1] = "ModuleDebugInfo" -> ModuleDebugInfo_print
          [] node[1] = "GlobalVar" ->
                GlobalVarDecl_print(printer, module.global_vars[node[2]])
          [] node[1] = "Func" -> FuncDecl_print(printer, module.funcs[node[2]])

\* Every version in a group of its own.
dedup_never(fragments) == [i \in 1..Len(fragments) |-> <<fragments[i], 1>>]

\* itertools' dedup_with_count, as (fragment, repeat_count) pairs.
RECURSIVE dedup_with_count(_)
dedup_with_count(fragments) ==
    IF fragments = <<>> THEN <<>>
    ELSE LET rest == dedup_with_count(Tail(fragments)) IN
         IF rest # <<>> /\ rest[1][1] = Head(fragments)
         THEN <<<<Head(fragments), rest[1][2] + 1>>>> \o Tail(rest)
         ELSE <<<<Head(fragments), 1>>>> \o rest

\* All Nodes but the root.
PrintedNodesWithoutRoot(printer) ==
    Keys(SelectSeq(printer, LAMBDA e : IsNode(e[1]) /\ e[1] # NodeRoot))

\* The Nodes printed, in the order of printer.use_styles.
PrintedNodes(printer) == Keys(SelectSeq(printer, LAMBDA e : IsNode(e[1])))

\* `let name = ..`: the name a Node's definition is printed under.
NodeName(printer, node) ==
    IF NodeCategoryIsErr(node) THEN <<>> ELSE print_as_def(printer, node)

\* `node_defs.get(&node).map(|def| ..).unwrap_or_default()` for version v.
VersionFragment(printer, defs, node, v) ==
    IF node \in DOMAIN defs[v].node_defs
    THEN insert_name_before_def(
            NodeDef_print(printer, defs[v].node_defs[node]), NodeName(printer, node))
    ELSE <<>>

\* The per-Node closure of <Plan as Print>::print.
NodeVersionsWithRepeatCount(printer, defs, node) ==
    LET num_versions == Len(defs) IN
    IF num_versions = 0 THEN <<>>
    ELSE IF node = NodeAllCxInterned
    THEN <<<<insert_name_before_def(AllCxInterned_print(printer),
                                    NodeName(printer, node)),
             num_versions>>>>
    ELSE dedup_with_count(
            [v \in 1..num_versions |-> VersionFragment(printer, defs, node, v)])

VersionsSingle(fragment) ==
    [kind |-> "Single", fragment |-> fragment, version_names |-> <<>>,
     per_node_versions_with_repeat_count |-> <<>>]
VersionsMultiple(version_names, per_node) ==
    [kind |-> "Multiple", fragment |-> <<>>, version_names |-> version_names,
     per_node_versions_with_repeat_count |-> per_node]

\* One version, whatever its name.
IsUnversionedWhateverName(defs) == Len(defs) = 1

\* `num_versions == 1 && per_version_name_and_node_defs[0].0.is_empty()`
IsUnversioned(defs) == Len(defs) = 1 /\ defs[1].name = ""

\* <Plan as Print>::print
Plan_print(printer, defs) ==
    LET nodes == PrintedNodes(printer)
        per_node == [i \in 1..Len(nodes) |->
                        NodeVersionsWithRepeatCount(printer, defs, nodes[i])]
    IN  IF IsUnversioned(defs)
        THEN VersionsSingle(
                Flatten(Intersperse(
                    SelectSeq([i \in 1..Len(per_node) |->
                                    per_node[i][Len(per_node[i])][1]],
                              LAMBDA fragment : fragment # <<>>),
                    <<Text("\n\n")>>)))
        ELSE VersionsMultiple([v \in 1..Len(defs) |-> defs[v].name], per_node)

\* A Return with more than one operand passes as well.
ControlInst_panics_return_lenient(control_inst) ==
    LET targets == Len(control_inst.targets)
        inputs == Len(control_inst.inputs)
    IN  CASE control_inst.kind = "Unreachable" -> ~(targets = 0 /\ inputs = 0)
          [] control_inst.kind = "Return" -> targets # 0
          [] control_inst.kind = "Branch" -> <<targets, inputs>> # <<1, 0>>
          [] control_inst.kind = "SelectBranch" -> inputs # 1 \/ targets # 2

\* The assert!, assert_eq! and unreachable! of <cfg::ControlInst as
\* Print>::print and, for a SelectBranch (BoolCond), of
\* print_with_scrutinee_and_cases: whether printing panics.
ControlInst_panics(control_inst) ==
    LET targets == Len(control_inst.targets)
        inputs == Len(control_inst.inputs)
    IN  CASE control_inst.kind = "Unreachable" -> ~(targets = 0 /\ inputs = 0)
          [] control_inst.kind = "Return" -> targets # 0 \/ inputs > 1
          [] control_inst.kind = "Branch" -> <<targets, inputs>> # <<1, 0>>
          [] control_inst.kind = "SelectBranch" -> inputs # 1 \/ targets # 2

\* The asserts of <FuncAt<ControlNode> as Print>::print.
ControlNode_panics(child) ==
    CASE child.kind = "Block" -> child.outputs # 0
      [] child.kind = "Select" -> child.cases # 2
      [] child.kind = "Loop" ->
            child.outputs # 0 \/ Len(child.initial_inputs) # child.body_inputs

\* Whether printing a FuncDecl panics somewhere in its body.
FuncDecl_panics(decl) ==
    \E i \in 1..Len(decl.body) :
        \/ \E c \in 1..Len(decl.body[i].children) :
                ControlNode_panics(decl.body[i].children[c])
        \/ ControlInst_panics(decl.body[i].control_inst)

\* Whether <Plan as Print>::print panics: it prints every registered
\* definition of every version.
Plan_print_panics(defs) ==
    \E v \in 1..Len(defs) : \E f \in Funcs :
        /\ NodeFunc(f) \in DOMAIN defs[v].node_defs
        /\ FuncDecl_panics(versions[defs[v].node_defs[NodeFunc(f)][1]].root.funcs[f])

\* Plan::pretty_print: Printer::new, print, then layout of every fragment
\* (layout changes no node of a fragment, only where its lines break); a
\* panic while printing unwinds out of it and nothing is returned.
pretty_print ==
    /\ pc = "planned"
    /\ IF Plan_print_panics(per_version_name_and_node_defs)
       THEN /\ pc' = "panicked"
            /\ UNCHANGED <<use_styles, out>>
       ELSE /\ use_styles' = Printer_new(use_counts, per_version_name_and_node_defs)
            /\ out' = Plan_print(use_styles', per_version_name_and_node_defs)
            /\ pc' = "printed"
    /\ UNCHANGED <<versions, mode, args, stderr, exit_code, current_module, per_version_name_and_node_defs,
                   use_counts, combined_use_counts, version_use_counts, stack, text, html>>

\* ------------------------------------------------ <Versions as Display>::fmt
Line(kind, names, fragment) == [kind |-> kind, names |-> names, fragment |-> fragment]

\* Mutant: a heading for every group, uniform or not.
HeadingAlways(version_names, next_version_idx, repeat_count) == TRUE

\* "No headings for anything uniform across versions."
Heading(version_names, next_version_idx, repeat_count) ==
    <<next_version_idx, repeat_count>> # <<0, Len(version_names)>>

\* Mutant: the names are taken from the first version on, whatever the group.
HeadingNamesFromFirst(version_names, next_version_idx, repeat_count) ==
    SubSeq(version_names, 1, repeat_count)

\* `&version_names[next_version_idx..][..*repeat_count]`
HeadingNames(version_names, next_version_idx, repeat_count) ==
    SubSeq(version_names, next_version_idx + 1, next_version_idx + repeat_count)

\* The inner loop of fmt over one Node's (fragment, repeat_count) groups.
RECURSIVE FmtGroups(_, _, _, _)
FmtGroups(version_names, groups, next_version_idx, any_headings) ==
    IF groups = <<>>
    THEN IF any_headings THEN <<Line("//#ENDIF", <<>>, <<>>)>> ELSE <<>>
    ELSE LET fragment == Head(groups)[1]
             repeat_count == Head(groups)[2]
             heading == Heading(version_names, next_version_idx, repeat_count)
             banner ==
                IF heading
                THEN <<Line(IF next_version_idx = 0 THEN "//#IF" ELSE "//#ELSEIF",
                            HeadingNames(version_names, next_version_idx, repeat_count),
                            <<>>)>>
                ELSE <<>>
         IN  banner \o <<Line("fragment", <<>>, fragment)>>
                \o FmtGroups(version_names, Tail(groups),
                             next_version_idx + repeat_count,
                             any_headings \/ heading)

Versions_fmt(v) ==
    IF v.kind = "Single" THEN <<Line("fragment", <<>>, v.fragment)>>
    ELSE Flatten(Intersperse(
            [i \in 1..Len(v.per_node_versions_with_repeat_count) |->
                FmtGroups(v.version_names,
                          v.per_node_versions_with_repeat_count[i], 0, FALSE)],
            <<Line("newline", <<>>, <<>>)>>))

fmt ==
    /\ pc = "printed"
    /\ text' = Versions_fmt(out)
    /\ pc' = "displayed"
    /\ UNCHANGED <<versions, mode, args, stderr, exit_code, current_module, per_version_name_and_node_defs,
                   use_counts, combined_use_counts, version_use_counts, stack,
                   use_styles, out, html>>

\* --------------------------------------------------- Versions::render_to_html
Html(kind, names, cells) == [kind |-> kind, names |-> names, cells |-> cells]

\* `[(_, repeat_count)] => repeat_count == version_names.len(), _ => false`
IsUniform(version_names, versions_with_repeat_count) ==
    /\ Len(versions_with_repeat_count) = 1
    /\ versions_with_repeat_count[1][2] = Len(version_names)

\* Headings only in front of a row that leaves a run of uniform rows.
HeadingsOnlyLeavingUniform(last_was_uniform, is_uniform) ==
    last_was_uniform /\ ~is_uniform

\* `if last_was_uniform && is_uniform { } else { html.body += &headings }`
HeadingsNeeded(last_was_uniform, is_uniform) ==
    ~(last_was_uniform /\ is_uniform)

\* The loop of render_to_html over the Nodes' rows.
RECURSIVE HtmlRows(_, _, _)
HtmlRows(version_names, per_node, last_was_uniform) ==
    IF per_node = <<>> THEN <<>>
    ELSE LET is_uniform == IsUniform(version_names, Head(per_node))
             headings ==
                IF HeadingsNeeded(last_was_uniform, is_uniform)
                THEN <<Html("headings", version_names, <<>>)>>
                ELSE <<>>
         IN  headings \o <<Html("row", <<>>, Head(per_node))>>
                \o HtmlRows(version_names, Tail(per_node), is_uniform)

Versions_render_to_html(versions_) ==
    IF versions_.kind = "Single"
    THEN <<Html("fragment", <<>>, <<<<versions_.fragment, 1>>>>)>>
    ELSE <<Html("table", <<>>, <<>>)>>
            \o HtmlRows(versions_.version_names,
                        versions_.per_node_versions_with_repeat_count, TRUE)
            \o <<Html("/table", <<>>, <<>>)>>

\* Plan::pretty_print(..).render_to_html(), for a library caller.
render_to_html ==
    /\ pc = "printed"
    /\ mode # "main"
    /\ html' = Versions_render_to_html(out)
    /\ pc' = "rendered"
    /\ UNCHANGED <<versions, mode, args, stderr, exit_code, current_module, per_version_name_and_node_defs,
                   use_counts, combined_use_counts, version_use_counts, stack,
                   use_styles, out, text>>

\* ------------------------------------------- examples/spv-lower-dump.rs
\* The files the command may be pointed at: one holds a module, the other
\* cannot be read as one.
InFiles == {"in.spv", "missing.spv"}

\* Module::lower_from_spv_file: Ok(module) or Err(io::Error).
lower_from_spv_file(in_file) ==
    IF in_file = "in.spv" THEN [ok |-> TRUE] ELSE [ok |-> FALSE]

UsageLine(program) == Line("Usage:", <<program, "IN">>, <<>>)
\* What the runtime writes for `Err(e)` returned from main.
ErrorLine == Line("Error:", <<>>, <<>>)

\* Mutant: the path is taken from any argument list that has one.
MatchesInFileOrMore(argv) == Len(argv) >= 2

\* The slice pattern `[_, in_file]`.
MatchesInFile(argv) == Len(argv) = 2

\* main up to the call of Plan::for_module (for_root on the loaded module),
\* or to its exit when there is nothing to load.
main ==
    /\ pc = "start"
    /\ mode = "main"
    /\ IF MatchesInFile(args)
       THEN IF lower_from_spv_file(args[2]).ok
            THEN /\ Plan_for_root
                 /\ UNCHANGED <<stderr, exit_code>>
            ELSE /\ stderr' = <<ErrorLine>>
                 /\ exit_code' = 1
                 /\ pc' = "exited"
                 /\ UNCHANGED <<current_module, per_version_name_and_node_defs,
                                use_counts, stack>>
       ELSE /\ stderr' = <<UsageLine(args[1])>>
            /\ exit_code' = 1
            /\ pc' = "exited"
            /\ UNCHANGED <<current_module, per_version_name_and_node_defs,
                           use_counts, stack>>
    /\ UNCHANGED <<versions, mode, args, combined_use_counts, version_use_counts,
                   use_styles, out, text, html>>

\* `eprintln!("{}", ..)` of the rendering, then `Ok(())`.
main_return ==
    /\ pc = "displayed"
    /\ mode = "main"
    /\ stderr' = text
    /\ exit_code' = 0
    /\ pc' = "exited"
    /\ UNCHANGED <<versions, mode, args, current_module,
                   per_version_name_and_node_defs, use_counts,
                   combined_use_counts, version_use_counts, stack, use_styles,
                   out, text, html>>

\* ------------------------------------------------------------------ Init
InitPlan ==
    /\ pc = "start"
    /\ current_module = 0
    /\ per_version_name_and_node_defs = <<>>
    /\ use_counts = <<>>
    /\ combined_use_counts = <<>>
    /\ version_use_counts = <<>>
    /\ stack = <<>>
    /\ use_styles = <<>>
    /\ out = <<>>
    /\ text = <<>>
    /\ html = <<>>
    /\ stderr = <<>>
    /\ exit_code = -1

\* The module the file in.spv holds, for the runs of the dump command.
InFileModules ==
    {ModuleOf(<<NodeFunc("f1"), NodeFunc("f2")>>,
              FuncDeclWithBody("a3", <<CxConst("c5")>>, b1),
              FuncDeclWithBody("a0", <<CxType("tS")>>, BodyF2)) :
        b1 \in {BodyA, <<>>}}

\* The inputs of the library entry points, called directly.
InitLibrary ==
    \/ /\ mode = "for_root"
       /\ versions \in {<<[name |-> "", root |-> m]>> : m \in RootModules}
    \/ /\ mode = "for_root"
       /\ versions \in {<<[name |-> "", root |-> r]>> : r \in DiagnosticRoots}
    \/ /\ mode = "for_root"
       /\ versions \in {<<[name |-> "", root |-> m]>> :
                             m \in BodyModules \cup CallModules \cup ShapeModules}
    \/ /\ mode = "for_versions"
       /\ \E n \in 2..MaxVersions :
             versions \in {[i \in 1..n |-> [name |-> VersionName(i), root |-> ms[i]]] :
                             ms \in [1..n -> BodyModules]}
    \/ /\ mode = "for_versions"
       /\ versions \in {<<[name |-> n, root |-> m]>> :
                             n \in {"", VersionName(1)}, m \in VersionModules}
    \/ /\ mode = "for_versions"
       /\ \E n \in 2..MaxVersions :
             versions \in {[i \in 1..n |-> [name |-> VersionName(i), root |-> ms[i]]] :
                             ms \in [1..n -> VersionModules]}

Init ==
    /\ InitPlan
    /\ \/ /\ mode = "main"
          /\ args \in {<<"spv-lower-dump">> \o paths :
                            paths \in SeqsUpTo(InFiles, MaxArgs)}
          /\ versions \in {<<[name |-> "", root |-> m]>> : m \in InFileModules}
       \/ /\ args = <<>>
          /\ InitLibrary

\* The steps of one traversal: the Visitor callbacks and their returns.
VisitNext ==
    \/ visit_attr_set_use
    \/ visit_type_use
    \/ visit_const_use
    \/ visit_global_var_use
    \/ visit_func_use
    \/ visit_module_dialect
    \/ visit_module_debug_info
    \/ visit_value_use
    \/ use_interned_return
    \/ use_node_return

Next ==
    \/ main
    \/ main_return
    \/ for_root
    \/ for_versions
    \/ VisitNext
    \/ merge_use_counts
    \/ rotate_root
    \/ pretty_print
    \/ fmt
    \/ render_to_html

Spec == Init /\ [][Next]_vars

\* A traversal is one synchronous call: it always takes its next step.
FairSpec == Spec /\ WF_vars(VisitNext)

\* ---------------------------------------------------------------- helpers
Planned == pc \in {"planned", "printed", "displayed"}
CountIn(m, k) == IF Has(m, k) THEN Get(m, k) ELSE 0
NoDuplicateKeys(m) == \A i, j \in 1..Len(m) : m[i][1] = m[j][1] => i = j
Elems(seq) == {seq[i] : i \in 1..Len(seq)}
MaxOf(S) == CHOOSE x \in S : \A y \in S : y <= x

\* The entities the definition of `e` uses directly, in version v.
DepSet(e, v) ==
    IF IsCxInterned(e) THEN Elems(InnerVisitCxInterned(e))
    ELSE Elems(InnerVisitNode(e, v))

RECURSIVE ReachableFrom(_, _, _)
ReachableFrom(frontier, seen, v) ==
    IF frontier \subseteq seen THEN seen
    ELSE LET new == frontier \ seen IN
         ReachableFrom(UNION {DepSet(x, v) : x \in new}, seen \cup new, v)

\* d uses e, directly or transitively (or is e).
Reaches(d, e, v) == e \in ReachableFrom({d}, {}, v)

Precedes(m, d, e) == Has(m, d) /\ Has(m, e) /\ IndexOf(m, d) < IndexOf(m, e)

\* The entities with a definition in version v: its registered Nodes and the
\* interned entities its traversal counted.
DefinedIn(v) ==
    (DOMAIN per_version_name_and_node_defs[v].node_defs)
        \cup {u \in KeySet(version_use_counts[v]) : IsCxInterned(u)}

RecursiveFuncs(v) ==
    IF versions[v].root.kind = "Module"
    THEN {f \in Funcs : \E d \in DepSet(NodeFunc(f), v) : Reaches(d, NodeFunc(f), v)}
    ELSE {}

\* ------------------------------------------------------------------ claims

\* C1 as stated: after Plan::for_root, every other entity a definition uses has
\* its entry strictly before the entry of the using entity, recursive
\* functions included, and no key occurs twice.
C1_DepsBeforeUsers ==
    (pc = "planned" /\ mode = "for_root" /\ versions[1].root.kind = "Module") =>
        /\ NoDuplicateKeys(use_counts)
        /\ \A e \in KeySet(use_counts) : \A d \in DepSet(e, 1) \ {e} :
                Precedes(use_counts, d, e)

\* C1 amended: after Plan::for_root on a Module, every entity a definition
\* uses has its entry strictly before the entry of the using entity unless the
\* used entity itself uses the user (a recursion cycle, where no such order
\* exists), and no Node or interned entity has two entries.
C1_DepsBeforeUsersUnlessRecursive ==
    (pc = "planned" /\ mode = "for_root" /\ versions[1].root.kind = "Module") =>
        /\ NoDuplicateKeys(use_counts)
        /\ \A e \in KeySet(use_counts) : \A d \in DepSet(e, 1) :
                Reaches(d, e, 1) \/ Precedes(use_counts, d, e)

C1_Witness ==
    /\ pc = "planned"
    /\ mode = "for_root"
    /\ RecursiveFuncs(1) = Funcs
    /\ Has(use_counts, NodeFunc("f2"))
    /\ CountIn(use_counts, CxType("tS")) = 1
    /\ CountIn(use_counts, CxConst("c5")) = 1

\* C2: after Plan::for_versions, for every version and every entity defined in
\* it, the entries of all entities its definition uses precede its own entry
\* in the merged use table.
C2_MergedDepsBeforeUsers ==
    (pc = "planned" /\ mode = "for_versions") =>
        \A v \in 1..Len(versions) : \A e \in DefinedIn(v) : \A d \in DepSet(e, v) :
            Precedes(use_counts, d, e)

\* C3: after Plan::for_versions, the merged table has exactly the Uses some
\* version counted, each with the maximum of its per-version counts (0 where
\* a version does not have it), not their sum.
C3_MergedCountIsMax ==
    (Planned /\ mode = "for_versions") =>
        /\ KeySet(use_counts) =
                UNION {KeySet(version_use_counts[v]) : v \in 1..Len(versions)}
        /\ \A u \in KeySet(use_counts) :
                Get(use_counts, u) =
                    MaxOf({CountIn(version_use_counts[v], u) : v \in 1..Len(versions)})

C3_Witness ==
    /\ pc = "planned"
    /\ mode = "for_versions"
    /\ Len(versions) = 2
    /\ CountIn(version_use_counts[1], CxType("tS")) = 2
    /\ CountIn(version_use_counts[2], CxType("tS")) = 1
    /\ Get(use_counts, CxType("tS")) = 2

\* How many activations of `u` are on the call stack.
Activations(stk, u) == Cardinality({i \in 1..Len(stk) : stk[i].use = u})

\* C4: the traversal of every module terminates, those with self- or mutually
\* recursive functions included; a recursive function is never entered while
\* it is registered (so it is discovered once), and once planning has ended it
\* has exactly one entry in the use table and a registered definition.
C4_RecursionTerminates ==
    /\ (pc = "visiting") ~> (pc \in {"planned", "merge"})
    /\ [](Len(stack) < MaxStack)
    /\ [][\A f \in Funcs :
            (/\ pc = "visiting"
             /\ pc' = "visiting"
             /\ ActiveVersion' = ActiveVersion
             /\ NodeFunc(f) \in DOMAIN node_defs)
            => Activations(stack', NodeFunc(f)) <= Activations(stack, NodeFunc(f))]_vars
    /\ [](pc = "planned" =>
            \A v \in 1..Len(versions) : \A f \in RecursiveFuncs(v) :
                Has(version_use_counts[v], NodeFunc(f)) =>
                    /\ Cardinality({i \in 1..Len(use_counts) :
                                        use_counts[i][1] = NodeFunc(f)}) = 1
                    /\ NodeFunc(f) \in DOMAIN per_version_name_and_node_defs[v].node_defs)

C4_Witness ==
    /\ pc = "planned"
    /\ mode = "for_root"
    /\ versions[1].root.kind = "Module"
    /\ NodeFunc("f1") \in DepSet(NodeFunc("f1"), 1)
    /\ NodeFunc("f1") \in DepSet(NodeFunc("f2"), 1)
    /\ NodeFunc("f2") \in DepSet(NodeFunc("f1"), 1)
    /\ Has(use_counts, NodeFunc("f1"))
    /\ Has(use_counts, NodeFunc("f2"))

\* The tokens of the whole displayed output, in order.
TextTokens == Flatten([i \in 1..Len(text) |-> text[i].fragment])

\* The tokens of the AllCxInterned bucket as printed.
BucketTokens == AllCxInterned_print(use_styles).def_without_name

\* How often `sub` occurs in `seq` as a run of consecutive tokens.
Occurrences(sub, seq) ==
    Cardinality({k \in 1..(Len(seq) - Len(sub) + 1) :
                    SubSeq(seq, k, k + Len(sub) - 1) = sub})

DefinitionsOf(anchor, seq) ==
    Cardinality({k \in 1..Len(seq) : seq[k].anchor = anchor /\ seq[k].anchor_is_def})

Banners == {"//#IF", "//#ELSEIF", "//#ENDIF"}

\* C6: the plain text of a single-version plan (for_root, or for_versions with
\* one version, named or not) has no //#IF, //#ELSEIF or //#ENDIF line.
C6_SingleVersionNoBanners ==
    (pc = "displayed" /\ Len(versions) = 1) =>
        \A i \in 1..Len(text) : text[i].kind \notin Banners

C6_Witness ==
    /\ pc = "displayed"
    /\ mode = "for_versions"
    /\ Len(versions) = 1
    /\ versions[1].name = VersionName(1)
    /\ out.kind = "Multiple"
    /\ Len(text) > 3

\* Whether the count of every non-compact interned Use is 1 in both tables
\* or more than 1 in both.
AgreeOnUsedOnce(a, b) ==
    \A k \in 1..Len(a) :
        (IsCxInterned(a[k][1]) /\ ~CxInternedIsCompact(a[k][1]))
            => ((a[k][2] = 1) <=> (CountIn(b, a[k][1]) = 1))

\* C7 as stated: a merged plan and the plan of one of its versions that list
\* the same Uses in the same order give every Use that is Anon in both the
\* same Anon index, whatever the counts.
C7_AnonIndexFromOrderOnly ==
    (pc = "printed" /\ mode = "for_versions") =>
        \A v \in 1..Len(versions) :
            Keys(version_use_counts[v]) = Keys(use_counts) =>
                LET other == Printer_new(version_use_counts[v], <<per_version_name_and_node_defs[v]>>) IN
                \A k \in 1..Len(use_styles) :
                    (use_styles[k][2].kind = "Anon" /\ other[k][2].kind = "Anon")
                        => use_styles[k][2].idx = other[k][2].idx

\* C7 amended: a merged plan and the plan of one of its versions that list
\* the same Uses in the same order, and agree for every non-compact interned
\* Use on whether its count is exactly 1, give every Node and interned Use
\* the same style and Anon index, whatever else the counts are.
C7_AnonIndexFromOrderAndUsedOnce ==
    (pc = "printed" /\ mode = "for_versions") =>
        \A v \in 1..Len(versions) :
            (/\ Keys(version_use_counts[v]) = Keys(use_counts)
             /\ AgreeOnUsedOnce(use_counts, version_use_counts[v]))
                => Printer_new(version_use_counts[v], <<per_version_name_and_node_defs[v]>>) = use_styles

C7_Witness ==
    /\ pc = "printed"
    /\ mode = "for_versions"
    /\ Len(versions) = 2
    /\ Keys(version_use_counts[1]) = Keys(use_counts)
    /\ AgreeOnUsedOnce(use_counts, version_use_counts[1])
    /\ CountIn(version_use_counts[1], NodeGlobalVar("g1")) = 1
    /\ CountIn(use_counts, NodeGlobalVar("g1")) = 2
    /\ StyleOf(use_styles, CxType("tP")).kind = "Anon"
    /\ StyleOf(use_styles, NodeGlobalVar("g1")).kind = "Anon"

\* The tokens a compact constant is rendered as where it is used.
ConstLiteral(ct) == <<Text(cx[ct].imms), Text(cx[cx[ct].ty].ctor)>>

\* C8: a compact constant (the integer literals 5 and 7) is Inline whatever
\* its use count: no anchor of category const exists anywhere in the output,
\* the AllCxInterned bucket does not hold the literal, and the literal is
\* rendered at its use sites (once per use when there is one version).
C8_CompactConstInline ==
    (pc = "displayed") =>
        \A ct \in {"c5", "c7"} :
            Has(use_counts, CxConst(ct)) =>
                /\ Get(use_styles, CxConst(ct)) = Inline
                /\ \A k \in 1..Len(TextTokens) :
                        TextTokens[k].anchor = <<>> \/ TextTokens[k].anchor[1] # "const"
                /\ Occurrences(ConstLiteral(ct), BucketTokens) = 0
                /\ Occurrences(ConstLiteral(ct), TextTokens) >= 1
                /\ Len(versions) = 1 =>
                        Occurrences(ConstLiteral(ct), TextTokens)
                            = Get(use_counts, CxConst(ct))

C8_Witness ==
    /\ pc = "displayed"
    /\ CountIn(use_counts, CxConst("c5")) = 2
    /\ CountIn(use_counts, CxConst("c7")) = 1
    /\ Occurrences(ConstLiteral("c5"), TextTokens) = 2

\* C9: every interned entity with an Anon style has exactly one token in the
\* whole output that defines its anchor, that token is in the AllCxInterned
\* bucket, the bucket is printed once however many versions there are, and
\* the body of the definition appears nowhere else (uses are references).
C9_AnonInternedDefinedOnce ==
    (pc = "displayed") =>
        \A i \in 1..Len(use_styles) :
            LET u == use_styles[i][1]
                style == use_styles[i][2]
                anchor == <<UseCategory(u), ToString(style.idx)>>
                body == CxInterned_print(use_styles, u).def_without_name
            IN  (IsCxInterned(u) /\ style.kind = "Anon") =>
                    /\ DefinitionsOf(anchor, TextTokens) = 1
                    /\ DefinitionsOf(anchor, BucketTokens) = 1
                    /\ Occurrences(BucketTokens, TextTokens) = 1
                    /\ Occurrences(body, TextTokens) = 1
                    /\ Occurrences(body, BucketTokens) = 1

C9_Witness ==
    /\ pc = "displayed"
    /\ Len(versions) = 2
    /\ StyleOf(use_styles, CxType("tS")).kind = "Anon"
    /\ StyleOf(use_styles, CxType("tP")).kind = "Anon"
    /\ \E k \in 1..Len(TextTokens) :
            TextTokens[k].anchor = <<"type", "0">> /\ ~TextTokens[k].anchor_is_def

\* The lines of the output Node by Node: the runs between "newline" lines.
RECURSIVE SplitAtNewlines(_, _)
SplitAtNewlines(lines, current) ==
    IF lines = <<>> THEN <<current>>
    ELSE IF Head(lines).kind = "newline"
    THEN <<current>> \o SplitAtNewlines(Tail(lines), <<>>)
    ELSE SplitAtNewlines(Tail(lines), Append(current, Head(lines)))

RECURSIVE SumCounts(_, _)
SumCounts(groups, n) ==
    IF n = 0 THEN 0 ELSE SumCounts(groups, n - 1) + groups[n][2]

\* C10: in multi-version text a Node whose rendering is the same in every
\* version is printed once with no banner; otherwise each group of versions
\* is headed by one banner, //#IF for the group that starts at the first
\* version and //#ELSEIF for the others, naming exactly the versions of the
\* group, all of which render as the fragment that follows, and exactly one
\* //#ENDIF follows the last group.
C10_BannersPerGroup ==
    (pc = "displayed" /\ out.kind = "Multiple") =>
        LET nodes == PrintedNodes(use_styles)
            defs == per_version_name_and_node_defs
            names == out.version_names
            segments == SplitAtNewlines(text, <<>>)
        IN  /\ Len(segments) = Len(nodes)
            /\ \A i \in 1..Len(nodes) :
                    LET seg == segments[i]
                        groups == out.per_node_versions_with_repeat_count[i]
                        rendering(v) ==
                            IF nodes[i] = NodeAllCxInterned
                            THEN BucketTokens
                            ELSE VersionFragment(use_styles, defs, nodes[i], v)
                    IN  IF \A v, w \in 1..Len(names) : rendering(v) = rendering(w)
                        THEN seg = <<Line("fragment", <<>>, rendering(1))>>
                        ELSE /\ Len(seg) = 2 * Len(groups) + 1
                             /\ SumCounts(groups, Len(groups)) = Len(names)
                             /\ seg[Len(seg)].kind = "//#ENDIF"
                             /\ \A g \in 1..Len(groups) :
                                    LET start == SumCounts(groups, g - 1)
                                        covered == (start + 1)..(start + groups[g][2])
                                    IN  /\ seg[2 * g - 1].kind =
                                                IF start = 0 THEN "//#IF" ELSE "//#ELSEIF"
                                        /\ seg[2 * g - 1].names =
                                                [k \in 1..groups[g][2] |-> names[start + k]]
                                        /\ seg[2 * g].kind = "fragment"
                                        /\ \A v \in covered :
                                                seg[2 * g].fragment = rendering(v)

C10_Witness ==
    /\ pc = "displayed"
    /\ Len(versions) = 2
    /\ \E i \in 1..Len(text) : text[i].kind = "//#ELSEIF" /\ text[i].names = <<VersionName(2)>>
    /\ \E i \in 1..Len(out.per_node_versions_with_repeat_count) :
            /\ PrintedNodes(use_styles)[i] = NodeFunc("f2")
            /\ Len(out.per_node_versions_with_repeat_count[i]) = 1
\* How often `u` occurs in a list of uses.
CountOf(u, uses) == Cardinality({i \in 1..Len(uses) : uses[i] = u})

\* The placeholder of a reference that has no style.
Undefined(u) == Text("/* undefined " \o UseCategory(u) \o " */_")

\* C12: with a root that is not a Module, planning never aborts; a global
\* variable or function reference of the root gets no use count and no
\* definition, and the output shows it as the inline placeholder
\* `/* undefined <category> */_`, the rest being rendered around it.
C12_NoModuleReferencePlaceholder ==
    (versions[1].root.kind = "ExpectedVsFound") =>
        /\ pc # "panicked"
        /\ pc = "displayed" =>
            LET root == versions[1].root IN
            /\ \A u \in {root.expected, root.found} :
                    (u[1] \in {"Func", "GlobalVar"}) =>
                        /\ ~Has(use_counts, u)
                        /\ ~Has(use_styles, u)
                        /\ u \notin DOMAIN per_version_name_and_node_defs[1].node_defs
            /\ (root.expected[1] \in {"Func", "GlobalVar"}) =>
                    Occurrences(<<Text("expected: "), Undefined(root.expected),
                                  ForceLineSeparation, Text("found: ")>>,
                                TextTokens) = 1
            /\ (root.found[1] \in {"Func", "GlobalVar"}) =>
                    /\ TextTokens[Len(TextTokens)] = Undefined(root.found)
                    /\ TextTokens[Len(TextTokens) - 1] = Text("found: ")

C12_Witness ==
    /\ pc = "displayed"
    /\ versions[1].root = ExpectedVsFound(NodeFunc("f1"), NodeGlobalVar("g1"))
    /\ Keys(use_counts) = <<NodeRoot>>

\* The visits of Func f made during the traversal of version v: by the root
\* and by the body of every function the plan holds.
VisitsOf(f, v) ==
    LET visitors == <<NodeRoot>> \o SelectSeq(Keys(use_counts), LAMBDA u : u[1] = "Func")
        counts == [i \in 1..Len(visitors) |->
                        CountOf(NodeFunc(f), InnerVisitNode(visitors[i], v))]
        sum[i \in 0..Len(visitors)] == IF i = 0 THEN 0 ELSE sum[i - 1] + counts[i]
    IN  sum[Len(visitors)]

\* C13: every visit of a function counts as a use, a visit made while the
\* function's own discovery is in progress (self or mutual recursion)
\* included: after Plan::for_root on a Module the use count of a function is
\* the number of visits of it.
C13_InProgressVisitCounts ==
    (pc = "planned" /\ mode = "for_root" /\ versions[1].root.kind = "Module") =>
        \A f \in Funcs :
            Has(use_counts, NodeFunc(f)) =>
                Get(use_counts, NodeFunc(f)) = VisitsOf(f, 1)
\* The plan and printer of `versions[1].root` planned alone.
AloneStyles ==
    Printer_new(version_use_counts[1], <<per_version_name_and_node_defs[1]>>)

SameRootInAllVersions == \A v \in 1..Len(versions) : versions[v].root = versions[1].root

\* C14: when every version of a plan has the same root, Printer::new gives
\* every Use the style (Inline, or Anon with the same parent function and
\* index) it gives it when that root is planned as a single version.
C14_StylesIndependentOfVersionCount ==
    (pc = "printed" /\ SameRootInAllVersions) =>
        /\ KeySet(use_styles) = KeySet(AloneStyles)
        /\ \A u \in KeySet(use_styles) : Get(use_styles, u) = Get(AloneStyles, u)

C14_Witness ==
    /\ pc = "printed"
    /\ mode = "for_versions"
    /\ Len(versions) = MaxVersions
    /\ SameRootInAllVersions
    /\ CountIn(use_counts, CxType("tS")) = 1
    /\ StyleOf(use_styles, CxType("tS")) = Inline
    /\ StyleOf(use_styles, CxType("tP")).kind = "Anon"

FirstPassStyles == FirstPass(use_counts, AnonCountersDefault, <<>>)

\* C16: the first pass of Printer::new gives each Use of the merged table
\* this style: labels, region inputs, control-node outputs and instruction
\* outputs Inline; the four singleton Nodes Anon with no parent and index 0;
\* an interned entity Inline exactly when its count is 1 or it is compact,
\* Anon with no parent otherwise; global variables and functions Anon with
\* no parent, whatever their count.
C16_FirstPassStyles ==
    Planned =>
        /\ Keys(FirstPassStyles) = Keys(use_counts)
        /\ \A k \in 1..Len(use_counts) :
            LET u == use_counts[k][1]
                use_count == use_counts[k][2]
                style == FirstPassStyles[k][2]
            IN  /\ IsFuncLocal(u) => style = Inline
                /\ u \in {NodeRoot, NodeAllCxInterned, NodeModuleDialect,
                           NodeModuleDebugInfo} => style = Anon("", 0)
                /\ IsCxInterned(u) =>
                        /\ (style = Inline) <=>
                                (use_count = 1 \/ CxInternedIsCompact(u))
                        /\ style # Inline =>
                                (style.kind = "Anon" /\ style.parent_func = "")
                /\ u[1] \in {"GlobalVar", "Func"} =>
                        (style.kind = "Anon" /\ style.parent_func = "")

C16_Witness ==
    /\ pc = "planned"
    /\ CountIn(use_counts, NodeFunc("f2")) = 1
    /\ StyleOf(FirstPassStyles, NodeFunc("f2")) = Anon("", 1)
    /\ Has(FirstPassStyles, DataInstOutput("i1"))
    /\ Get(FirstPassStyles, DataInstOutput("i1")) = Inline
    /\ Has(FirstPassStyles, ControlRegionLabel("r2"))
    /\ Get(FirstPassStyles, ControlRegionLabel("r2")) = Inline
    /\ StyleOf(FirstPassStyles, NodeModuleDialect) = Anon("", 0)

\* The uses a category counter of the first pass numbers.
IsCounted(u) == u[1] \in {"AttrSet", "Type", "Const", "GlobalVar", "Func"}

RemoveAt(m, j) == SubSeq(m, 1, j - 1) \o SubSeq(m, j + 1, Len(m))

\* C17: an Anon attribute set, type, constant, global variable or function
\* has as index the number of Anon entries of its own category before it in
\* the merged table (so a category's indices are 0..n-1 in table order);
\* removing a later entry of the table changes the style of no earlier one;
\* and the second pass leaves every style that is already Anon as it is.
C17_IndexCountsEarlierOfCategory ==
    Planned =>
        /\ \A k \in 1..Len(use_counts) :
                (IsCounted(use_counts[k][1]) /\ FirstPassStyles[k][2].kind = "Anon") =>
                    FirstPassStyles[k][2].idx =
                        Cardinality({j \in 1..(k - 1) :
                            /\ use_counts[j][1][1] = use_counts[k][1][1]
                            /\ FirstPassStyles[j][2].kind = "Anon"})
        /\ \A j \in 1..Len(use_counts) :
                SubSeq(FirstPass(RemoveAt(use_counts, j), AnonCountersDefault, <<>>),
                       1, j - 1)
                    = SubSeq(FirstPassStyles, 1, j - 1)
        /\ LET final == Printer_new(use_counts, per_version_name_and_node_defs) IN
            \A k \in 1..Len(use_counts) :
                FirstPassStyles[k][2].kind = "Anon" => final[k] = FirstPassStyles[k]

C17_Witness ==
    /\ pc = "printed"
    /\ mode = "for_versions"
    /\ StyleOf(use_styles, CxType("tS")) = Anon("", 0)
    /\ StyleOf(use_styles, NodeFunc("f1")) = Anon("", 0)
    /\ StyleOf(use_styles, CxType("tP")) = Anon("", 1)
    /\ StyleOf(use_styles, NodeFunc("f2")) = Anon("", 1)
    /\ StyleOf(use_styles, NodeGlobalVar("g1")) = Anon("", 0)

\* Where `x` is first met in a list.
FirstPos(seq, x) ==
    CHOOSE i \in 1..Len(seq) : seq[i] = x /\ \A j \in 1..(i - 1) : seq[j] # x

IsLabel(u) == u[1] = "ControlRegionLabel"

\* C18: for each function of the plan, with its bodies taken version after
\* version and each body in structural order, a label or value defined
\* there that is in the use table is Anon with that function as parent, its
\* index being the number of labels (for a label) or of other values (for a
\* value) of the table first defined before it, whichever version defines
\* it first; one that is not in the use table has no style at all.
C18_LocalIndicesAcrossVersions ==
    (pc = "printed") =>
        \A f \in Funcs :
            Has(use_counts, NodeFunc(f)) =>
                LET defined == func_def_bodies_across_versions(
                                    per_version_name_and_node_defs, f)
                IN  \A u \in Elems(defined) :
                        IF Has(use_counts, u)
                        THEN Get(use_styles, u) =
                                Anon(f, Cardinality({w \in Elems(defined) :
                                    /\ Has(use_counts, w)
                                    /\ IsLabel(w) = IsLabel(u)
                                    /\ FirstPos(defined, w) < FirstPos(defined, u)}))
                        ELSE ~Has(use_styles, u)

C18_Witness ==
    /\ pc = "printed"
    /\ Len(versions) = 2
    /\ versions[1].root.funcs["f1"].body = BodyA
    /\ versions[2].root.funcs["f1"].body = BodyB
    /\ StyleOf(use_styles, ControlRegionLabel("r1")) = Anon("f1", 0)
    /\ StyleOf(use_styles, ControlRegionLabel("r2")) = Anon("f1", 1)
    /\ StyleOf(use_styles, DataInstOutput("i1")) = Anon("f1", 1)
    /\ StyleOf(use_styles, ControlNodeOutput("n2", 0)) = Anon("f1", 2)
    /\ StyleOf(use_styles, DataInstOutput("i4")) = Anon("f1", 3)

\* The pieces of a styled text or of an anchor, as the one string they form.
Join(pieces) ==
    LET acc[i \in 0..Len(pieces)] ==
            IF i = 0 THEN "" ELSE acc[i - 1] \o pieces[i]
    IN  acc[Len(pieces)]

\* The Anon uses a definition or a reference can name.
Named ==
    {u \in KeySet(use_styles) :
        Get(use_styles, u).kind = "Anon" /\ u \notin {NodeRoot, NodeAllCxInterned}}

AnchorOf(u) == Join(Use_print(use_styles, u)[1].anchor)
RenderedName(u) == Join(Use_print(use_styles, u)[1].text)

\* C19: after Printer::new no two distinct Anon uses that are rendered by
\* name have the same anchor string, labels and values of different
\* functions and of different versions of one function included.
C19_AnchorsUnique ==
    (pc = "printed") =>
        \A u, w \in Named : u # w => AnchorOf(u) # AnchorOf(w)

C19_Witness ==
    /\ pc = "printed"
    /\ Len(versions) = 2
    /\ versions[1].root.funcs["f1"].body = BodyB
    /\ versions[2].root.funcs["f1"].body = BodyA
    /\ AnchorOf(ControlRegionInput("r1", 0)) = "func0.v0"
    /\ AnchorOf(ControlRegionInput("r3", 0)) = "func1.v0"
    /\ AnchorOf(ControlNodeOutput("n2", 0)) = "func0.v3"
    /\ AnchorOf(ControlRegionLabel("r1")) = "func0.label0"
    /\ AnchorOf(ControlRegionLabel("r4")) = "func1.label0"

CategoryAndIndex(u) == UseCategory(u) \o ToString(Get(use_styles, u).idx)

FuncName(func) == CategoryAndIndex(NodeFunc(func))

\* C20 as stated: an Anon use with no parent function is rendered as
\* `{category}{index}`, one with a parent function as the function's name, a
\* separator and its local `{category}{index}`.
C20_RenderedNameScoped ==
    (pc = "printed") =>
        \A u \in Named :
            RenderedName(u) =
                IF Get(use_styles, u).parent_func = ""
                THEN CategoryAndIndex(u)
                ELSE FuncName(Get(use_styles, u).parent_func) \o "."
                        \o CategoryAndIndex(u)

\* C20 amended: an Anon type, constant, global variable or function is
\* rendered as `{category}{index}`, an Anon attribute set as that name after
\* `#`, the two module records as their bare category; an Anon label or
\* value is rendered as its local `{category}{index}` alone, and it is its
\* anchor that is the parent function's name, `.`, then that local name.
C20_RenderedNameLocalAnchorScoped ==
    (pc = "printed") =>
        \A u \in Named :
            LET style == Get(use_styles, u) IN
            /\ u[1] \in {"Type", "Const", "GlobalVar", "Func"} =>
                    (RenderedName(u) = CategoryAndIndex(u)
                        /\ AnchorOf(u) = CategoryAndIndex(u))
            /\ u[1] = "AttrSet" =>
                    (RenderedName(u) = "#" \o CategoryAndIndex(u)
                        /\ AnchorOf(u) = CategoryAndIndex(u))
            /\ u[1] \in {"ModuleDialect", "ModuleDebugInfo"} =>
                    (RenderedName(u) = UseCategory(u) /\ AnchorOf(u) = UseCategory(u))
            /\ IsFuncLocal(u) =>
                    /\ style.parent_func # ""
                    /\ RenderedName(u) = CategoryAndIndex(u)
                    /\ AnchorOf(u) =
                            FuncName(style.parent_func) \o "." \o CategoryAndIndex(u)

C20_Witness ==
    /\ pc = "printed"
    /\ RenderedName(ControlNodeOutput("n2", 0)) = "v2"
    /\ AnchorOf(ControlNodeOutput("n2", 0)) = "func0.v2"
    /\ RenderedName(ControlRegionLabel("r4")) = "label0"
    /\ AnchorOf(ControlRegionLabel("r4")) = "func1.label0"
    /\ RenderedName(NodeFunc("f2")) = "func1"
\* C15 as stated: with exactly one input path the dump command ends with
\* the plain-text rendering of the module's Plan on standard error and exit
\* status 0; with any other argument count it ends with the usage line on
\* standard error and a non-zero status, nothing loaded or rendered.
C15_OnePathExitsZero ==
    (mode = "main" /\ pc = "exited") =>
        IF Len(args) = 2
        THEN /\ exit_code = 0
             /\ text # <<>>
             /\ stderr = text
        ELSE /\ exit_code # 0
             /\ stderr = <<UsageLine(args[1])>>
             /\ per_version_name_and_node_defs = <<>>
             /\ text = <<>>

\* C15 amended: with exactly one input path whose module loads, the command
\* ends with the plain-text rendering of that module's Plan on standard
\* error and exit status 0; when the module fails to load it ends with a
\* non-zero status, nothing planned or rendered; with any other argument
\* count it ends with the usage line on standard error and a non-zero
\* status, nothing loaded or rendered.
C15_OneLoadablePathExitsZero ==
    /\ (mode = "main" /\ pc = "exited") =>
            IF Len(args) = 2
            THEN IF lower_from_spv_file(args[2]).ok
                 THEN /\ exit_code = 0
                      /\ Has(use_counts, NodeRoot)
                      /\ out = Plan_print(Printer_new(use_counts,
                                                      per_version_name_and_node_defs),
                                          per_version_name_and_node_defs)
                      /\ text = Versions_fmt(out)
                      /\ text # <<>>
                      /\ stderr = text
                 ELSE /\ exit_code # 0
                      /\ stderr # <<UsageLine(args[1])>>
                      /\ per_version_name_and_node_defs = <<>>
                      /\ text = <<>>
            ELSE /\ exit_code # 0
                 /\ stderr = <<UsageLine(args[1])>>
                 /\ per_version_name_and_node_defs = <<>>
                 /\ text = <<>>
    /\ (mode = "main" /\ pc # "exited") => (exit_code = -1 /\ stderr = <<>>)

C15_Witness ==
    /\ mode = "main"
    /\ pc = "exited"
    /\ args = <<"spv-lower-dump", "in.spv">>
    /\ exit_code = 0
    /\ Len(stderr) = 1
    /\ Occurrences(<<Text("return")>>, stderr[1].fragment) = 2
\* C21: in the complete output of a plan, with one version or several, the
\* anchor of every Anon use that has a name is marked as a definition at
\* exactly one token.
C21_AnchorDefinedExactlyOnce ==
    (pc = "displayed") =>
        \A u \in Named :
            DefinitionsOf(Use_print(use_styles, u)[1].anchor, TextTokens) = 1

\* The uses of the versions' own tables in order of first appearance: the
\* first version's in its discovery order, then for each later version the
\* ones no earlier version has, in that version's order.
FirstAppearanceOrder ==
    LET n == Len(version_use_counts)
        acc[i \in 0..n] ==
            IF i = 0 THEN <<>>
            ELSE acc[i - 1] \o
                 SelectSeq(Keys(version_use_counts[i]),
                           LAMBDA u : \A e \in Elems(acc[i - 1]) : e # u)
    IN  acc[n]

\* C22: the step that ends for_versions turns the merged table, whose keys
\* are the uses in order of first appearance across the versions, into the
\* same table with the entry of the synthetic root moved to the end: no
\* count changes and all other entries keep their relative order.
C22_FirstAppearanceThenRootLast ==
    [][(pc = "rotate" /\ pc' = "planned") =>
          /\ Keys(use_counts) = FirstAppearanceOrder
          /\ Keys(use_counts') =
                SelectSeq(Keys(use_counts), LAMBDA u : u # NodeRoot) \o <<NodeRoot>>
          /\ ShiftRemove(use_counts', NodeRoot) = ShiftRemove(use_counts, NodeRoot)
          /\ Get(use_counts', NodeRoot) = Get(use_counts, NodeRoot)]_vars

C22_Witness ==
    /\ pc = "planned"
    /\ mode = "for_versions"
    /\ Len(version_use_counts) = 2
    /\ KeySet(version_use_counts[2]) \ KeySet(version_use_counts[1]) # {}
    /\ use_counts[Len(use_counts)][1] = NodeRoot
    /\ version_use_counts[1][Len(version_use_counts[1])][1] = NodeRoot

Regions == {"r1", "r2", "r3", "r4"}

\* How often the exits of the regions of f's body in version v name r.
BranchesTo(r, f, v) ==
    LET body == versions[v].root.funcs[f].body
        exits == UNION {{i} \X (1..Len(body[i].control_inst.targets)) :
                            i \in 1..Len(body)}
    IN  Cardinality({it \in exits : body[it[1]].control_inst.targets[it[2]] = r})

\* C23: after planning a version, the use count of a region's label in that
\* version's table is the number of times the exits of the regions of the
\* planned functions' bodies name it as a target, counted with multiplicity
\* and once per function however often the function is referenced; a label
\* that no exit names has no entry.
C23_LabelCountIsTargetOccurrences ==
    \A v \in 1..Len(version_use_counts) :
        \A r \in Regions :
            CountIn(version_use_counts[v], ControlRegionLabel(r)) =
                IF versions[v].root.kind # "Module" THEN 0
                ELSE LET planned == {f \in Funcs : Has(version_use_counts[v], NodeFunc(f))}
                         n[S \in SUBSET planned] ==
                            IF S = {} THEN 0
                            ELSE LET f == CHOOSE g \in S : TRUE
                                 IN  BranchesTo(r, f, v) + n[S \ {f}]
                     IN  n[planned]

C23_Witness ==
    /\ pc = "planned"
    /\ CountIn(use_counts, ControlRegionLabel("r2")) = 2
    /\ CountIn(use_counts, ControlRegionLabel("r1")) = 0
    /\ CountIn(use_counts, NodeFunc("f1")) >= 2
    /\ NodeFunc("f1") \in Elems(versions[1].root.funcs["f1"].uses)

\* The rendering of the groups that covers version v.
RECURSIVE GroupOf(_, _)
GroupOf(groups, v) ==
    IF v <= groups[1][2] THEN groups[1][1] ELSE GroupOf(Tail(groups), v - groups[1][2])

\* What the output holds for version v of a printed Node: its own rendering
\* when versions are kept apart, else the whole flattened output.
RenderingOf(node, v) ==
    IF out.kind = "Single" THEN out.fragment
    ELSE GroupOf(out.per_node_versions_with_repeat_count[
                    FirstPos(PrintedNodes(use_styles), node)], v)

\* Where the label header of region r starts in a rendering: a forced line
\* break followed by the definition of the label's anchor.
HeaderPositions(frag, r) ==
    {k \in 2..Len(frag) :
        /\ frag[k - 1] = ForceLineSeparation
        /\ frag[k].anchor_is_def
        /\ Has(use_styles, ControlRegionLabel(r))
        /\ frag[k].anchor = Use_print(use_styles, ControlRegionLabel(r))[1].anchor}

\* Where a label header ends: `:` and a forced line break.
HeaderEnds(frag) ==
    {k \in 1..(Len(frag) - 1) : frag[k] = Text(":") /\ frag[k + 1] = ForceLineSeparation}

\* C24: in the output, every version's rendering of a function body puts a
\* label header in front of exactly the regions whose label has an entry in
\* the merged use table, so a region no version targets has none, and the
\* headers stand in the order of the body's regions (reverse postorder).
C24_HeaderIffLabelInTable ==
    (pc \in {"printed", "displayed"}) =>
        \A v \in 1..Len(versions) : \A f \in Funcs :
            (NodeFunc(f) \in DOMAIN per_version_name_and_node_defs[v].node_defs) =>
                LET body == versions[v].root.funcs[f].body
                    frag == RenderingOf(NodeFunc(f), v)
                    labelled == {i \in 1..Len(body) :
                                    Has(use_counts, ControlRegionLabel(body[i].region))}
                IN  /\ \A i \in 1..Len(body) :
                        Cardinality(HeaderPositions(frag, body[i].region)) =
                            IF i \in labelled THEN 1 ELSE 0
                    /\ out.kind = "Multiple" =>
                            Cardinality(HeaderEnds(frag)) = Cardinality(labelled)
                    /\ \A i, j \in labelled : i < j =>
                            \A a \in HeaderPositions(frag, body[i].region) :
                            \A b \in HeaderPositions(frag, body[j].region) : a < b

C24_Witness ==
    /\ pc = "printed"
    /\ Len(versions) = 2
    /\ versions[1].root.kind = "Module" /\ versions[2].root.kind = "Module"
    /\ versions[1].root.funcs["f1"].body = BodyA
    /\ versions[2].root.funcs["f1"].body = BodyB
    /\ Has(use_counts, ControlRegionLabel("r1"))
    /\ HeaderPositions(RenderingOf(NodeFunc("f1"), 1), "r1") # {}
    /\ HeaderPositions(RenderingOf(NodeFunc("f2"), 1), "r3") = {}

\* What version v renders for a printed Node: its definition in v under
\* the Node's name, nothing when v has none; the bucket of interned
\* definitions is the same in every version.
RenderingInVersion(node, v) ==
    IF node = NodeAllCxInterned
    THEN insert_name_before_def(AllCxInterned_print(use_styles),
                                NodeName(use_styles, node))
    ELSE VersionFragment(use_styles, per_version_name_and_node_defs, node, v)

\* C25: in a multi-version result the (rendering, repeat count) groups of
\* every Node are the maximal run-length encoding of its renderings version
\* by version (no definition: empty): the counts are at least 1 and sum to
\* the number of versions, neighbouring groups differ, and each group is the
\* rendering of all the versions it covers, taken in order.
C25_GroupsAreMaximalRuns ==
    (pc \in {"printed", "displayed"} /\ out.kind = "Multiple") =>
        LET nodes == PrintedNodes(use_styles)
            rows == out.per_node_versions_with_repeat_count
        IN  /\ Len(rows) = Len(nodes)
            /\ \A i \in 1..Len(rows) :
                /\ \A g \in 1..Len(rows[i]) : rows[i][g][2] >= 1
                /\ SumCounts(rows[i], Len(rows[i])) = Len(versions)
                /\ \A g \in 1..(Len(rows[i]) - 1) : rows[i][g][1] # rows[i][g + 1][1]
                /\ \A v \in 1..Len(versions) :
                        GroupOf(rows[i], v) = RenderingInVersion(nodes[i], v)

C25_Witness ==
    /\ pc = "printed"
    /\ out.kind = "Multiple"
    /\ \E i, j \in 1..Len(out.per_node_versions_with_repeat_count) :
        LET a == out.per_node_versions_with_repeat_count[i]
            b == out.per_node_versions_with_repeat_count[j]
        IN  /\ Len(a) = 2 /\ a[1][1] # <<>> /\ a[2][1] # <<>>
            /\ Len(b) = 1 /\ b[1][2] = 2
            /\ PrintedNodes(use_styles)[j] # NodeAllCxInterned
            /\ PrintedNodes(use_styles)[j] # NodeRoot

\* The positions of the Node rows in the HTML output, in order.
RowPositions == SelectSeq([k \in 1..Len(html) |-> k], LAMBDA k : html[k].kind = "row")

\* Whether the i-th Node's row is one cell that spans every version.
UniformRow(i) ==
    i = 0 \/ IsUniform(out.version_names, out.per_node_versions_with_repeat_count[i])

HeadingsBeforeRow(i) == html[RowPositions[i] - 1].kind = "headings"

\* Every headings row stands directly in front of a Node's row.
HeadingsOnlyBeforeRows ==
    \A k \in 1..Len(html) :
        html[k].kind = "headings" => (k < Len(html) /\ html[k + 1].kind = "row")

\* C26 as stated: in multi-version HTML output a headings row stands in
\* front of a Node's row exactly when that row is not uniform and the row
\* before it, or the start of the table, was; there is no other headings row.
C26_HeadingsOnlyLeavingUniformRun ==
    (pc = "rendered" /\ out.kind = "Multiple") =>
        /\ HeadingsOnlyBeforeRows
        /\ \A i \in 1..Len(RowPositions) :
                HeadingsBeforeRow(i) <=> (~UniformRow(i) /\ UniformRow(i - 1))

\* C26, amended: in multi-version HTML output every Node has one row, in
\* order, and a headings row naming all versions stands in front of a Node's
\* row unless that row and the row before it (or the start of the table) are
\* both uniform; there is no other headings row.
C26_HeadingsUnlessBetweenUniformRows ==
    (pc = "rendered" /\ out.kind = "Multiple") =>
        /\ HeadingsOnlyBeforeRows
        /\ Len(RowPositions) = Len(out.per_node_versions_with_repeat_count)
        /\ \A i \in 1..Len(RowPositions) :
            /\ html[RowPositions[i]].cells = out.per_node_versions_with_repeat_count[i]
            /\ HeadingsBeforeRow(i) <=> ~(UniformRow(i) /\ UniformRow(i - 1))
            /\ HeadingsBeforeRow(i) =>
                    html[RowPositions[i] - 1].names = out.version_names

C26_Witness ==
    /\ pc = "rendered"
    /\ out.kind = "Multiple"
    /\ \E i \in 2..(Len(RowPositions) - 1) :
        /\ ~UniformRow(i - 1) /\ ~UniformRow(i) /\ UniformRow(i + 1)
        /\ HeadingsBeforeRow(i) /\ HeadingsBeforeRow(i + 1)
    /\ ~HeadingsBeforeRow(1)

\* The renderings of the given Nodes in the only version, in order, the
\* empty ones dropped, with one blank-line gap between neighbours.
FlattenedRenderings(nodes) ==
    Flatten(Intersperse(
        SelectSeq([i \in 1..Len(nodes) |-> RenderingInVersion(nodes[i], 1)],
                  LAMBDA fragment : fragment # <<>>),
        <<Text("\n\n")>>))

NodesInDiscoveryOrder == SelectSeq(Keys(use_styles), LAMBDA u : IsNode(u))

\* C27 as stated: with exactly one version, unnamed, the output is the
\* renderings of all Nodes except the synthetic root, in discovery order,
\* empty ones dropped, one blank-line gap between neighbours.
C27_FlattenedWithoutRoot ==
    (pc = "printed" /\ IsUnversioned(per_version_name_and_node_defs)) =>
        /\ out.kind = "Single"
        /\ out.fragment =
                FlattenedRenderings(SelectSeq(NodesInDiscoveryOrder,
                                              LAMBDA u : u # NodeRoot))

\* C27, amended: with exactly one version, unnamed, the output is the
\* renderings of all Nodes, the root included (it is the last), in discovery
\* order, empty ones dropped, one blank-line gap between neighbours and none
\* at either end.
C27_FlattenedWithRoot ==
    (pc = "printed" /\ IsUnversioned(per_version_name_and_node_defs)) =>
        /\ out.kind = "Single"
        /\ out.fragment = FlattenedRenderings(NodesInDiscoveryOrder)
        /\ NodesInDiscoveryOrder[Len(NodesInDiscoveryOrder)] = NodeRoot
        /\ out.fragment # <<>> =>
                /\ out.fragment[1] # Text("\n\n")
                /\ out.fragment[Len(out.fragment)] # Text("\n\n")

C27_Witness ==
    /\ pc = "printed"
    /\ IsUnversioned(per_version_name_and_node_defs)
    /\ RenderingInVersion(NodeRoot, 1) # <<>>
    /\ \E i \in 1..Len(NodesInDiscoveryOrder) :
            RenderingInVersion(NodesInDiscoveryOrder[i], 1) = <<>>
    /\ \E i \in 1..Len(NodesInDiscoveryOrder) :
            /\ NodesInDiscoveryOrder[i] # NodeRoot
            /\ RenderingInVersion(NodesInDiscoveryOrder[i], 1) # <<>>

\* Whether a body holds a construct whose shape its kind does not allow: a
\* boolean selection without exactly two cases, a return with more than one
\* operand, a branch without exactly one target and no inputs, a
\* select-branch without exactly one input, an unreachable or a return with
\* targets, a loop whose initial inputs are not as many as its body's inputs.
ShapeViolated(body) ==
    \E i \in 1..Len(body) :
        LET exit == body[i].control_inst IN
        \/ exit.kind = "SelectBranch" /\ Len(exit.targets) # 2
        \/ exit.kind = "SelectBranch" /\ Len(exit.inputs) # 1
        \/ exit.kind = "Return" /\ Len(exit.inputs) > 1
        \/ exit.kind = "Branch" /\ (Len(exit.targets) # 1 \/ exit.inputs # <<>>)
        \/ exit.kind \in {"Unreachable", "Return"} /\ exit.targets # <<>>
        \/ \E c \in 1..Len(body[i].children) :
            LET child == body[i].children[c] IN
            \/ child.kind = "Select" /\ child.cases # 2
            \/ child.kind = "Loop" /\ Len(child.initial_inputs) # child.body_inputs

\* Whether some planned function definition holds such a construct.
PlannedShapeViolated ==
    \E v \in 1..Len(per_version_name_and_node_defs) : \E f \in Funcs :
        /\ NodeFunc(f) \in DOMAIN per_version_name_and_node_defs[v].node_defs
        /\ ShapeViolated(versions[v].root.funcs[f].body)

\* C28: once planning is over, printing a plan that holds a control-flow
\* construct of a shape its kind does not allow panics: the print operation
\* is over and no output, whole or partial, exists (no Versions value, no
\* text, no HTML).
C28_MalformedShapePanics ==
    (PlannedShapeViolated /\ pc \notin {"start", "visiting", "merge", "next",
                                        "rotate", "planned"}) =>
        /\ pc = "panicked"
        /\ out = <<>>
        /\ text = <<>>
        /\ html = <<>>

C28_Witness ==
    /\ pc = "panicked"
    /\ out = <<>>
    /\ versions[1].root.funcs["f1"].body[1].control_inst.kind = "Return"
    /\ Len(versions[1].root.funcs["f1"].body[1].control_inst.inputs) = 2

\* The Nodes some version has a registered definition for.
RegisteredNodes ==
    UNION {DOMAIN per_version_name_and_node_defs[v].node_defs :
                v \in 1..Len(per_version_name_and_node_defs)}

\* C29: when planning is complete (for_root, for_module or for_versions) the
\* Node keys of the use table are exactly the Nodes that have a registered
\* definition in at least one version and every use count is at least 1; and
\* no step ever removes or replaces a definition registered for a Node in a
\* version.
C29_NodeKeysAreRegisteredNodes ==
    /\ [](pc = "planned" =>
            /\ {u \in KeySet(use_counts) : IsNode(u)} = RegisteredNodes
            /\ \A i \in 1..Len(use_counts) : use_counts[i][2] >= 1)
    /\ [][\A v \in 1..Len(per_version_name_and_node_defs) :
            \A node \in DOMAIN per_version_name_and_node_defs[v].node_defs :
                /\ v <= Len(per_version_name_and_node_defs')
                /\ node \in DOMAIN per_version_name_and_node_defs'[v].node_defs
                /\ per_version_name_and_node_defs'[v].node_defs[node] =
                        per_version_name_and_node_defs[v].node_defs[node]]_vars

C29_Witness ==
    /\ pc = "planned"
    /\ mode = "for_versions"
    /\ Len(per_version_name_and_node_defs) = 2
    /\ NodeGlobalVar("g1") \in DOMAIN per_version_name_and_node_defs[2].node_defs
    /\ NodeGlobalVar("g1") \notin DOMAIN per_version_name_and_node_defs[1].node_defs
    /\ CountIn(use_counts, NodeGlobalVar("g1")) >= 2

\* for_versions was given exactly one version, and its name is empty.
OneUnnamedVersion ==
    mode = "for_versions" /\ Len(versions) = 1 /\ versions[1].name = ""

\* C30: for_versions on exactly one version whose name is empty does what
\* for_root does on the same root: its first step leaves the plan as
\* for_root's does, the steps after the traversal (merge, rotation of the
\* root) change neither the use table nor the registered definitions, so
\* the table is the one the traversal built, root last; and both print
\* through the single-version path, while one version with a name is
\* printed through the multi-version path.
C30_OneUnnamedVersionIsForRoot ==
    /\ [][(pc = "start" /\ OneUnnamedVersion) => Plan_for_root]_vars
    /\ [][(pc \in {"merge", "rotate"} /\ OneUnnamedVersion) =>
            /\ use_counts' = use_counts
            /\ per_version_name_and_node_defs' = per_version_name_and_node_defs]_vars
    /\ []((pc = "planned" /\ OneUnnamedVersion) =>
            /\ use_counts = version_use_counts[1]
            /\ use_counts[Len(use_counts)][1] = NodeRoot)
    /\ []((pc = "printed" /\ Len(versions) = 1) =>
            /\ (mode \in {"for_root", "main"} => out.kind = "Single")
            /\ (mode = "for_versions" =>
                    (out.kind = "Single" <=> versions[1].name = "")))

C30_Witness ==
    /\ pc = "printed"
    /\ OneUnnamedVersion
    /\ out.kind = "Single"
    /\ out.fragment # <<>>
    /\ Len(use_counts) > 3
====
